---- MODULE Spec2Model ----
(***************************************************************************)
(* Model of the serial transfer protocol library (STP_Controller):         *)
(*   cobs_processor.h               COBSProcessor (EncodePayload,          *)
(*                                  DecodePayload)                         *)
(*   crc_processor.h                CRCProcessor (table, checksum,         *)
(*                                  add / read checksum)                   *)
(*   stream_mock.h                  StreamMock (the byte stream port)      *)
(*   serialized_transfer_protocol.h SerializedTransferProtocol (the        *)
(*                                  transfer engine)                       *)
(* Bytes are the integers 0..255, buffers are functions over 0..size-1     *)
(* (the source's indices), unsigned arithmetic keeps its width.            *)
(***************************************************************************)
EXTENDS Integers, Sequences, FiniteSets, TLC

(***************************************************************************)
(* Bounds of the model.                                                    *)
(***************************************************************************)
\* size of the buffer template argument handed to the COBS codec
CobsBufferSize == 5

\* byte values payloads are drawn from (0 and 1 are the modelled delimiters)
PayloadBytes == {0, 1, 2}
\* delimiter values the codec is called with
DelimiterBytes == {0, 1, 2}

\* size of the buffer template argument handed to the CRC processor
CrcBufferSize == 4
\* byte values the checksummed messages are drawn from
CrcBytes == {0, 1, 255}
\* number of CRC processor calls made on one buffer in one behaviour
MaxCrcCalls == 3

\* the engine's template arguments (254 and 254 in main.cpp)
kMaximumTransmittedPayloadSize == 2
kMaximumReceivedPayloadSize == 2
\* StreamMock::buffer_size (300 in stream_mock.h): room for one whole frame
\* of the largest payload and the widest checksum, and for two frames of
\* one-byte payloads one after another
port_buffer_size == 12
\* the engine's timeout argument, in timer ticks
kTimeout == 2
\* byte values the objects handed to WriteData are made of
ObjectBytes == {0, 1}
\* content of the destination object before a ReadData call
DestinationByte == 170
\* number of streams the harness puts on the port in one behaviour
MaxFeeds == 2
\* byte values the payloads of inbound frames are made of
InboundBytes == {0, 14}
\* values a byte of an inbound frame is changed to
ChangedBytes == {0, 1}
\* longest run of bytes the line delivers ahead of a frame's start byte
MaxNoise == 2
\* number of streams the line carries in one behaviour
MaxLineFeeds == 1

(***************************************************************************)
(* State.                                                                  *)
(*   codec   a COBSProcessor and the buffer it is called on                *)
(*   crcp    a CRCProcessor and the buffer it is called on                 *)
(* The remaining variables are one SerializedTransferProtocol engine, its  *)
(* stream port and the bytes still on their way to the port.               *)
(***************************************************************************)
VARIABLES codec, crcp,
          cfg,                           \* constructor arguments of the engine
          transmission_buffer, bytes_in_transmission_buffer,
          reception_buffer, bytes_in_reception_buffer,
          transfer_status,
          cobs_status, crc_status,       \* of the engine's two processors
          port,                          \* the StreamMock behind _port
          parse,                         \* position of a running ReceiveData
          last,                          \* the most recent call and its result
          fed                            \* what the harness put on the port

(***************************************************************************)
(* Fixed-width unsigned arithmetic.                                        *)
(***************************************************************************)
RECURSIVE Pow2(_)
Pow2(n) == IF n = 0 THEN 1 ELSE 2 * Pow2(n - 1)

\* conversion to uint8_t / uint16_t
U8(x) == x % 256
U16(x) == x % 65536

RECURSIVE XOR(_, _)
XOR(a, b) ==
    IF a = 0 THEN b
    ELSE IF b = 0 THEN a
    ELSE (((a % 2) + (b % 2)) % 2) + 2 * XOR(a \div 2, b \div 2)

Max(a, b) == IF a > b THEN a ELSE b

(***************************************************************************)
(* stp_shared_assets.h: status codes.                                      *)
(***************************************************************************)
kCOBSStandby == 11
kEncoderTooSmallPayloadSize == 12
kEncoderTooLargePayloadSize == 13
kEncoderPacketLargerThanBuffer == 14
kPayloadAlreadyEncoded == 15
kPayloadEncoded == 16
kDecoderTooSmallPacketSize == 17
kDecoderTooLargePacketSize == 18
kDecoderPacketLargerThanBuffer == 19
kDecoderUnableToFindDelimiter == 20
kDecoderDelimiterFoundTooEarly == 21
kPacketAlreadyDecoded == 22
kPayloadDecoded == 23

kCRCStandby == 51
kCalculateCRCChecksumBufferTooSmall == 52
kCRCChecksumCalculated == 53
kAddCRCChecksumBufferTooSmall == 54
kCRCChecksumAddedToBuffer == 55
kReadCRCChecksumBufferTooSmall == 56
kCRCChecksumReadFromBuffer == 57

kStandby == 101
kPacketConstructed == 102
kPacketSent == 103
kPacketStartByteFound == 104
kPacketStartByteNotFoundError == 105
kPacketDelimiterByteFound == 106
kPacketOutOfBufferSpaceError == 107
kPacketTimeoutError == 108
kPostambleTimeoutError == 109
kPacketParsed == 110
kCRCCheckFailed == 111
kPacketValidated == 112
kPacketReceived == 113
kWritePayloadTooSmallError == 114
kBytesWrittenToBuffer == 115
kReadPayloadTooSmallError == 116
kBytesReadFromBuffer == 117
kNoBytesToParseFromBuffer == 118

\* the three enumerations, each as the sequence of its enumerators' values
kCOBSProcessorCodes ==
    <<kCOBSStandby, kEncoderTooSmallPayloadSize, kEncoderTooLargePayloadSize,
      kEncoderPacketLargerThanBuffer, kPayloadAlreadyEncoded, kPayloadEncoded,
      kDecoderTooSmallPacketSize, kDecoderTooLargePacketSize,
      kDecoderPacketLargerThanBuffer, kDecoderUnableToFindDelimiter,
      kDecoderDelimiterFoundTooEarly, kPacketAlreadyDecoded, kPayloadDecoded>>

\* an enumeration of the CRC codes that starts at the value the COBS codes
\* start at
CRCCodesFromCOBSStandby == [k \in 1..7 |-> kCOBSStandby + k - 1]

kCRCProcessorCodes ==
    <<kCRCStandby, kCalculateCRCChecksumBufferTooSmall,
      kCRCChecksumCalculated, kAddCRCChecksumBufferTooSmall,
      kCRCChecksumAddedToBuffer, kReadCRCChecksumBufferTooSmall,
      kCRCChecksumReadFromBuffer>>

kSerializedTransferProtocolStatusCodes ==
    <<kStandby, kPacketConstructed, kPacketSent, kPacketStartByteFound,
      kPacketStartByteNotFoundError, kPacketDelimiterByteFound,
      kPacketOutOfBufferSpaceError, kPacketTimeoutError,
      kPostambleTimeoutError, kPacketParsed, kCRCCheckFailed,
      kPacketValidated, kPacketReceived, kWritePayloadTooSmallError,
      kBytesWrittenToBuffer, kReadPayloadTooSmallError, kBytesReadFromBuffer,
      kNoBytesToParseFromBuffer>>

(***************************************************************************)
(* cobs_processor.h: kCOBSProcessorParameters.                             *)
(***************************************************************************)
kMinPayloadSize == 1
kMaxPayloadSize == 254
kMinPacketSize == 3
kMaxPacketSize == 256

(***************************************************************************)
(* COBSProcessor::EncodePayload.  buffer is the array, buffer_size its     *)
(* template size, payload_size the uint8_t argument.  The result holds the *)
(* buffer after the call, the returned uint16_t and cobs_status.           *)
(***************************************************************************)
\* a reverse loop that takes every delimiter for the last one of the payload
RECURSIVE EncodeLoopToEnd(_, _, _, _, _)
EncodeLoopToEnd(buffer, i, last_delimiter_index, payload_end_index, delimiter) ==
    IF i < 1
    THEN [buf |-> buffer, last |-> last_delimiter_index]
    ELSE IF buffer[i] = delimiter
         THEN EncodeLoopToEnd(
                  [buffer EXCEPT ![i] = U8((payload_end_index + 1) - i)],
                  i - 1, i, payload_end_index, delimiter)
         ELSE EncodeLoopToEnd(buffer, i - 1, last_delimiter_index,
                              payload_end_index, delimiter)

\* the reverse loop "for (uint8_t i = payload_end_index; i >= 1; i--)"
RECURSIVE EncodeLoop(_, _, _, _, _)
EncodeLoop(buffer, i, last_delimiter_index, payload_end_index, delimiter) ==
    IF i < 1
    THEN [buf |-> buffer, last |-> last_delimiter_index]
    ELSE IF buffer[i] = delimiter
         THEN EncodeLoop(
                  [buffer EXCEPT ![i] =
                      IF last_delimiter_index = 0
                      THEN U8((payload_end_index + 1) - i)
                      ELSE U8(last_delimiter_index - i)],
                  i - 1, i, payload_end_index, delimiter)
         ELSE EncodeLoop(buffer, i - 1, last_delimiter_index,
                         payload_end_index, delimiter)

\* an EncodePayload that looks at the overhead placeholder before the sizes
EncodeOverheadFirst(buffer, buffer_size, payload_size, delimiter) ==
    IF buffer[0] # 0
    THEN [buf |-> buffer, ret |-> 0, status |-> kPayloadAlreadyEncoded]
    ELSE IF payload_size < kMinPayloadSize
    THEN [buf |-> buffer, ret |-> 0, status |-> kEncoderTooSmallPayloadSize]
    ELSE IF payload_size > kMaxPayloadSize
    THEN [buf |-> buffer, ret |-> 0, status |-> kEncoderTooLargePayloadSize]
    ELSE IF U16(buffer_size) < U16(payload_size + 2)
    THEN [buf |-> buffer, ret |-> 0, status |-> kEncoderPacketLargerThanBuffer]
    ELSE LET withDelimiter == [buffer EXCEPT ![payload_size + 1] = delimiter]
             looped == EncodeLoop(withDelimiter, payload_size, 0,
                                  payload_size, delimiter)
             overhead == IF looped.last # 0 THEN looped.last
                         ELSE U8(payload_size + 1)
         IN [buf |-> [looped.buf EXCEPT ![0] = overhead],
             ret |-> U16(payload_size + 2),
             status |-> kPayloadEncoded]

\* an EncodePayload without the minimum payload size check
EncodeAnySize(buffer, buffer_size, payload_size, delimiter) ==
    IF payload_size > kMaxPayloadSize
    THEN [buf |-> buffer, ret |-> 0, status |-> kEncoderTooLargePayloadSize]
    ELSE IF U16(buffer_size) < U16(payload_size + 2)
    THEN [buf |-> buffer, ret |-> 0, status |-> kEncoderPacketLargerThanBuffer]
    ELSE IF buffer[0] # 0
    THEN [buf |-> buffer, ret |-> 0, status |-> kPayloadAlreadyEncoded]
    ELSE LET withDelimiter == [buffer EXCEPT ![payload_size + 1] = delimiter]
             looped == EncodeLoop(withDelimiter, payload_size, 0,
                                  payload_size, delimiter)
             overhead == IF looped.last # 0 THEN looped.last
                         ELSE U8(payload_size + 1)
         IN [buf |-> [looped.buf EXCEPT ![0] = overhead],
             ret |-> U16(payload_size + 2),
             status |-> kPayloadEncoded]

EncodePayload(buffer, buffer_size, payload_size, delimiter) ==
    IF payload_size < kMinPayloadSize
    THEN [buf |-> buffer, ret |-> 0, status |-> kEncoderTooSmallPayloadSize]
    ELSE IF payload_size > kMaxPayloadSize
    THEN [buf |-> buffer, ret |-> 0, status |-> kEncoderTooLargePayloadSize]
    ELSE IF U16(buffer_size) < U16(payload_size + 2)
    THEN [buf |-> buffer, ret |-> 0, status |-> kEncoderPacketLargerThanBuffer]
    ELSE IF buffer[0] # 0
    THEN [buf |-> buffer, ret |-> 0, status |-> kPayloadAlreadyEncoded]
    ELSE LET withDelimiter == [buffer EXCEPT ![payload_size + 1] = delimiter]
             looped == EncodeLoop(withDelimiter, payload_size, 0,
                                  payload_size, delimiter)
             overhead == IF looped.last # 0 THEN looped.last
                         ELSE U8(payload_size + 1)
         IN [buf |-> [looped.buf EXCEPT ![0] = overhead],
             ret |-> U16(payload_size + 2),
             status |-> kPayloadEncoded]

(***************************************************************************)
(* COBSProcessor::DecodePayload.  packet_size is the uint16_t argument.    *)
(***************************************************************************)
\* a loop that follows the chain as far as the array reaches
RECURSIVE DecodeLoopToArrayEnd(_, _, _, _, _)
DecodeLoopToArrayEnd(buffer, read_index, next_index, packet_size, delimiter) ==
    IF /\ read_index + next_index \in DOMAIN buffer
    THEN LET r == read_index + next_index
         IN IF buffer[r] = delimiter
            THEN IF r = packet_size - 1
                 THEN [buf |-> buffer, ret |-> U16(r - 1),
                       status |-> kPayloadDecoded]
                 ELSE [buf |-> buffer, ret |-> 0,
                       status |-> kDecoderDelimiterFoundTooEarly]
            ELSE DecodeLoopToArrayEnd([buffer EXCEPT ![r] = delimiter], r,
                                      buffer[r], packet_size, delimiter)
    ELSE [buf |-> buffer, ret |-> 0, status |-> kDecoderUnableToFindDelimiter]

\* the loop "while ((read_index + next_index) < packet_size)"
RECURSIVE DecodeLoop(_, _, _, _, _)
DecodeLoop(buffer, read_index, next_index, packet_size, delimiter) ==
    IF read_index + next_index < packet_size
    THEN LET r == read_index + next_index
         IN IF buffer[r] = delimiter
            THEN IF r = packet_size - 1
                 THEN [buf |-> buffer, ret |-> U16(r - 1),
                       status |-> kPayloadDecoded]
                 ELSE [buf |-> buffer, ret |-> 0,
                       status |-> kDecoderDelimiterFoundTooEarly]
            ELSE DecodeLoop([buffer EXCEPT ![r] = delimiter], r, buffer[r],
                            packet_size, delimiter)
    ELSE [buf |-> buffer, ret |-> 0, status |-> kDecoderUnableToFindDelimiter]

\* a DecodePayload that leaves the overhead byte as it is before the loop
DecodeKeepingOverhead(buffer, buffer_size, packet_size, delimiter) ==
    IF packet_size < kMinPacketSize
    THEN [buf |-> buffer, ret |-> 0, status |-> kDecoderTooSmallPacketSize]
    ELSE IF packet_size > kMaxPacketSize
    THEN [buf |-> buffer, ret |-> 0, status |-> kDecoderTooLargePacketSize]
    ELSE IF U16(buffer_size) < packet_size
    THEN [buf |-> buffer, ret |-> 0, status |-> kDecoderPacketLargerThanBuffer]
    ELSE IF buffer[0] = 0
    THEN [buf |-> buffer, ret |-> 0, status |-> kPacketAlreadyDecoded]
    ELSE DecodeLoop(buffer, 0, buffer[0], packet_size, delimiter)

DecodePayload(buffer, buffer_size, packet_size, delimiter) ==
    IF packet_size < kMinPacketSize
    THEN [buf |-> buffer, ret |-> 0, status |-> kDecoderTooSmallPacketSize]
    ELSE IF packet_size > kMaxPacketSize
    THEN [buf |-> buffer, ret |-> 0, status |-> kDecoderTooLargePacketSize]
    ELSE IF U16(buffer_size) < packet_size
    THEN [buf |-> buffer, ret |-> 0, status |-> kDecoderPacketLargerThanBuffer]
    ELSE IF buffer[0] = 0
    THEN [buf |-> buffer, ret |-> 0, status |-> kPacketAlreadyDecoded]
    ELSE DecodeLoop([buffer EXCEPT ![0] = 0], 0, buffer[0], packet_size,
                    delimiter)

(***************************************************************************)
(* crc_processor.h: CRCProcessor<PolynomialType>.  W is sizeof             *)
(* (PolynomialType), the CRC register holds W * 8 bits.                    *)
(***************************************************************************)
\* the 8 shift steps of one table entry in GenerateCRCTable
RECURSIVE TableBits(_, _, _, _)
TableBits(crc, bit, crc_bits, polynomial) ==
    IF bit = 8
    THEN crc
    ELSE TableBits(
             IF crc >= Pow2(crc_bits - 1)
             THEN XOR((crc * 2) % Pow2(crc_bits), polynomial)
             ELSE (crc * 2) % Pow2(crc_bits),
             bit + 1, crc_bits, polynomial)

GenerateCRCTable(W, polynomial) ==
    [byte \in 0..255 |->
        TableBits(IF W * 8 > 8 THEN (byte * Pow2(W * 8 - 8)) % Pow2(W * 8)
                  ELSE byte,
                  0, W * 8, polynomial)]

\* the CRC parameter sets engines and processors are constructed with:
\* CRC-8 (0x07, 0x00, 0x00) of the error tests, CRC-8/I-432-1 (0x07, 0x00,
\* 0x55), CRC-16/CCITT-FALSE (0x1021, 0xFFFF, 0x0000) of main.cpp and
\* CRC-16/GENIBUS (0x1021, 0xFFFF, 0xFFFF).  The uint32_t instantiation is
\* left out: its register values exceed the integers TLC evaluates.
\* int_bits is the width of int in the build of the processor.
CRC8 == [W |-> 1, polynomial |-> 7, initial_value |-> 0,
         final_xor_value |-> 0, int_bits |-> 32]
CRC8X == [W |-> 1, polynomial |-> 7, initial_value |-> 0,
          final_xor_value |-> 85, int_bits |-> 32]
CRC16 == [W |-> 2, polynomial |-> 4129, initial_value |-> 65535,
          final_xor_value |-> 0, int_bits |-> 32]
CRC16X == [W |-> 2, polynomial |-> 4129, initial_value |-> 65535,
           final_xor_value |-> 65535, int_bits |-> 32]
CRCParameters == {CRC8, CRC8X, CRC16, CRC16X}

\* crc_table, filled once by the constructor of each processor
crc_table == [wp \in {<<p.W, p.polynomial>> : p \in CRCParameters} |->
                 GenerateCRCTable(wp[1], wp[2])]

\* a loop that takes the table index from the low byte of the checksum
RECURSIVE ChecksumLoopLowByte(_, _, _, _, _)
ChecksumLoopLowByte(buffer, i, end, crc_checksum, p) ==
    IF i >= end
    THEN crc_checksum
    ELSE LET data_byte == buffer[i]
             table_index == U8(XOR(crc_checksum % 256, data_byte))
         IN ChecksumLoopLowByte(
                buffer, i + 1, end,
                XOR((crc_checksum * 256) % Pow2(8 * p.W),
                    crc_table[<<p.W, p.polynomial>>][table_index]),
                p)

\* the loop of CalculatePacketCRCChecksum over buffer[i .. end - 1]
RECURSIVE ChecksumLoop(_, _, _, _, _)
ChecksumLoop(buffer, i, end, crc_checksum, p) ==
    IF i >= end
    THEN crc_checksum
    ELSE LET data_byte == buffer[i]
             table_index ==
                 U8(XOR(crc_checksum \div Pow2(8 * (p.W - 1)), data_byte))
         IN ChecksumLoop(
                buffer, i + 1, end,
                XOR((crc_checksum * 256) % Pow2(8 * p.W),
                    crc_table[<<p.W, p.polynomial>>][table_index]),
                p)

\* "static_cast<uint16_t>(buffer_size) - start_index": both operands are
\* uint16_t.  Where int has 32 bits they are promoted to int and the
\* difference is negative for a start index beyond the buffer; where int has
\* 16 bits (the Arduino Uno of crc_processor.h:34) uint16_t is unsigned int,
\* the difference is unsigned and wraps.  p.int_bits is the int of the
\* build.
Remaining(buffer_size, start_index, p) ==
    IF p.int_bits = 16
    THEN (65536 + U16(buffer_size) - start_index) % 65536
    ELSE U16(buffer_size) - start_index

CalculatePacketCRCChecksum(buffer, buffer_size, start_index, packet_size, p) ==
    IF Remaining(buffer_size, start_index, p) < packet_size
    THEN [ret |-> 0, status |-> kCalculateCRCChecksumBufferTooSmall]
    ELSE [ret |-> XOR(ChecksumLoop(buffer, start_index,
                                   start_index + packet_size,
                                   p.initial_value, p),
                      p.final_xor_value),
          status |-> kCRCChecksumCalculated]

\* the byte written at start_index + i when the least significant byte
\* goes first
LowByteFirst(crc_checksum, i, W) == (crc_checksum \div Pow2(8 * i)) % 256

\* the byte written at start_index + i: most significant byte first
ChecksumByte(crc_checksum, i, W) ==
    (crc_checksum \div Pow2(8 * (W - i - 1))) % 256

AddCRCChecksumToBuffer(buffer, buffer_size, start_index, crc_checksum, p) ==
    IF p.W > Remaining(buffer_size, start_index, p)
    THEN [buf |-> buffer, ret |-> 0, status |-> kAddCRCChecksumBufferTooSmall]
    ELSE [buf |-> [k \in DOMAIN buffer |->
                      IF k >= start_index /\ k < start_index + p.W
                      THEN ChecksumByte(crc_checksum, k - start_index, p.W)
                      ELSE buffer[k]],
          ret |-> U16(start_index + p.W),
          status |-> kCRCChecksumAddedToBuffer]

RECURSIVE ExtractLoop(_, _, _, _, _)
ExtractLoop(buffer, start_index, i, extracted_crc, W) ==
    IF i >= W
    THEN extracted_crc
    ELSE ExtractLoop(buffer, start_index, i + 1,
                     extracted_crc
                         + buffer[start_index + i] * Pow2(8 * (W - i - 1)),
                     W)

ReadCRCChecksumFromBuffer(buffer, buffer_size, start_index, p) ==
    IF p.W > Remaining(buffer_size, start_index, p)
    THEN [ret |-> 0, status |-> kReadCRCChecksumBufferTooSmall]
    ELSE [ret |-> ExtractLoop(buffer, start_index, 0, 0, p.W),
          status |-> kCRCChecksumReadFromBuffer]

engineVars == <<cfg, transmission_buffer, bytes_in_transmission_buffer,
                reception_buffer, bytes_in_reception_buffer, transfer_status,
                cobs_status, crc_status, port, parse, last, fed>>
txVars == <<transmission_buffer, bytes_in_transmission_buffer>>
rxVars == <<reception_buffer, bytes_in_reception_buffer>>
vars == <<codec, crcp, cfg, transmission_buffer, bytes_in_transmission_buffer,
          reception_buffer, bytes_in_reception_buffer, transfer_status,
          cobs_status, crc_status, port, parse, last, fed>>

NoCall == [op |-> "none"]

(***************************************************************************)
(* The codec on its own: a buffer of CobsBufferSize bytes with any content *)
(* over PayloadBytes, and any sequence of EncodePayload / DecodePayload    *)
(* calls with one delimiter value.  prev and last record the two most      *)
(* recent calls: arguments, buffer before the call, result.                *)
(***************************************************************************)
EncodeSizes == (0..CobsBufferSize) \cup {255}
DecodeSizes == (0..(CobsBufferSize + 1)) \cup {256, 257}

CodecInit ==
    codec \in {[buf |-> b, delimiter |-> d, cobs_status |-> kCOBSStandby,
                prev |-> NoCall, last |-> NoCall] :
                  b \in [0..(CobsBufferSize - 1) -> PayloadBytes],
                  d \in DelimiterBytes}

CodecIdle ==
    codec = [buf |-> [i \in 0..(CobsBufferSize - 1) |-> 0], delimiter |-> 0,
             cobs_status |-> kCOBSStandby, prev |-> NoCall, last |-> NoCall]

CodecCall(op, size, r) ==
    codec' = [buf |-> r.buf, delimiter |-> codec.delimiter,
              cobs_status |-> r.status, prev |-> codec.last,
              last |-> [op |-> op, size |-> size, pre |-> codec.buf,
                        ret |-> r.ret, status |-> r.status]]

CallEncodePayload ==
    \E payload_size \in EncodeSizes :
        CodecCall("EncodePayload", payload_size,
                  EncodePayload(codec.buf, CobsBufferSize, payload_size,
                                codec.delimiter))

CallDecodePayload ==
    \E packet_size \in DecodeSizes :
        CodecCall("DecodePayload", packet_size,
                  DecodePayload(codec.buf, CobsBufferSize, packet_size,
                                codec.delimiter))

(***************************************************************************)
(* The CRC processor on its own: one of the parameter sets, a buffer of    *)
(* CrcBufferSize bytes and up to MaxCrcCalls calls.  checksum is the       *)
(* caller's variable holding the value most recently returned by           *)
(* CalculatePacketCRCChecksum or ReadCRCChecksumFromBuffer; it is what the *)
(* caller hands to AddCRCChecksumToBuffer.  Two history fields:            *)
(*   covers  <<start, size>> when checksum was calculated over that range  *)
(*           of the current buffer, <<>> otherwise                         *)
(*   sealed  n when the last change of the buffer appended at index n the  *)
(*           checksum calculated over buffer[0 .. n-1], -1 otherwise       *)
(***************************************************************************)
CrcStartIndices == 0..(CrcBufferSize + 1)
CrcPacketStarts == {0, 1}
CrcPacketSizes == 0..(CrcBufferSize + 1)

CrcInit ==
    crcp \in {[p |-> q, buf |-> b, crc_status |-> kCRCStandby, checksum |-> 0,
               covers |-> <<>>, sealed |-> -1, calls |-> 0, last |-> NoCall] :
                 q \in CRCParameters,
                 b \in [0..(CrcBufferSize - 1) -> CrcBytes]}

CrcIdle ==
    crcp = [p |-> CRC16, buf |-> [i \in 0..(CrcBufferSize - 1) |-> 0],
            crc_status |-> kCRCStandby, checksum |-> 0, covers |-> <<>>,
            sealed |-> -1, calls |-> 0, last |-> NoCall]

\* the memory a call is handed: the array and, behind it, bytes that do not
\* belong to it, here all of the value outside (what an access past the end
\* of the array meets is not defined)
Memory(buffer, outside) ==
    [k \in 0..(CrcBufferSize + 2) |->
        IF k < CrcBufferSize THEN buffer[k] ELSE outside]

\* the values drawn for the bytes behind the array: one suffices for a call
\* that stays inside the array
BytesBehind(start_index) ==
    IF start_index + crcp.p.W > CrcBufferSize THEN CrcBytes ELSE {0}

\* the array part of a memory
ArrayOf(memory) == [k \in 0..(CrcBufferSize - 1) |-> memory[k]]

CrcCall(op, start_index, size, arg, r) ==
    [op |-> op, start_index |-> start_index, size |-> size, pre |-> crcp.buf,
     arg |-> arg, ret |-> r.ret, status |-> r.status]

CallCalculatePacketCRCChecksum ==
    \E start_index \in CrcPacketStarts, packet_size \in CrcPacketSizes :
        LET r == CalculatePacketCRCChecksum(crcp.buf, CrcBufferSize,
                                            start_index, packet_size, crcp.p)
        IN /\ crcp.calls < MaxCrcCalls
           /\ crcp' = [crcp EXCEPT
                 !.calls = @ + 1,
                 !.crc_status = r.status,
                 !.checksum = r.ret,
                 !.covers = IF r.status = kCRCChecksumCalculated
                            THEN <<start_index, packet_size>> ELSE <<>>,
                 !.last = CrcCall("CalculatePacketCRCChecksum", start_index,
                                  packet_size, 0, r)]

CallAddCRCChecksumToBuffer ==
    \E start_index \in CrcStartIndices :
      \E outside \in BytesBehind(start_index) :
        LET r == AddCRCChecksumToBuffer(Memory(crcp.buf, outside),
                                        CrcBufferSize, start_index,
                                        crcp.checksum, crcp.p)
            added == r.status = kCRCChecksumAddedToBuffer
        IN /\ crcp.calls < MaxCrcCalls
           /\ crcp' = [crcp EXCEPT
                 !.calls = @ + 1,
                 !.buf = ArrayOf(r.buf),
                 !.crc_status = r.status,
                 !.covers = IF added THEN <<>> ELSE @,
                 !.sealed = IF ~added THEN @
                            ELSE IF crcp.covers = <<0, start_index>>
                                 THEN start_index ELSE -1,
                 !.last = CrcCall("AddCRCChecksumToBuffer", start_index,
                                  crcp.p.W, crcp.checksum, r)]

CallReadCRCChecksumFromBuffer ==
    \E start_index \in CrcStartIndices :
      \E outside \in BytesBehind(start_index) :
        LET r == ReadCRCChecksumFromBuffer(Memory(crcp.buf, outside),
                                           CrcBufferSize, start_index, crcp.p)
        IN /\ crcp.calls < MaxCrcCalls
           /\ crcp' = [crcp EXCEPT
                 !.calls = @ + 1,
                 !.crc_status = r.status,
                 !.checksum = r.ret,
                 !.covers = <<>>,
                 !.last = CrcCall("ReadCRCChecksumFromBuffer", start_index,
                                  crcp.p.W, 0, r)]

(***************************************************************************)
(* stream_mock.h: StreamMock.  Entries outside 0..255 (-1) are "no data".  *)
(***************************************************************************)
StreamMock ==
    [rx_buffer |-> [k \in 0..(port_buffer_size - 1) |-> 0], rx_buffer_index |-> 0,
     tx_buffer |-> [k \in 0..(port_buffer_size - 1) |-> 0], tx_buffer_index |-> 0]

\* write(buffer, bytes_to_write), the loop from byte i of the sequence bytes
RECURSIVE MockWrite(_, _, _)
MockWrite(p, bytes, i) ==
    IF i < Len(bytes) /\ p.tx_buffer_index < port_buffer_size
    THEN MockWrite([p EXCEPT !.tx_buffer[p.tx_buffer_index] = bytes[i + 1],
                             !.tx_buffer_index = @ + 1], bytes, i + 1)
    ELSE [port |-> p, ret |-> i]

\* available()
RECURSIVE MockCount(_, _)
MockCount(p, i) ==
    IF i < port_buffer_size /\ p.rx_buffer[i] >= 0 /\ p.rx_buffer[i] <= 255
    THEN 1 + MockCount(p, i + 1)
    ELSE 0

MockAvailable(p) == MockCount(p, p.rx_buffer_index)

\* read()
MockRead(p) ==
    IF /\ p.rx_buffer_index < port_buffer_size
       /\ p.rx_buffer[p.rx_buffer_index] >= 0
       /\ p.rx_buffer[p.rx_buffer_index] <= 255
    THEN [port |-> [p EXCEPT !.rx_buffer_index = @ + 1],
          ret |-> p.rx_buffer[p.rx_buffer_index]]
    ELSE [port |-> p, ret |-> -1]

\* reset()
MockReset(p) ==
    [rx_buffer |-> [k \in 0..(port_buffer_size - 1) |-> -1], rx_buffer_index |-> 0,
     tx_buffer |-> [k \in 0..(port_buffer_size - 1) |-> -1], tx_buffer_index |-> 0]

(***************************************************************************)
(* serialized_transfer_protocol.h: the transfer engine.                    *)
(***************************************************************************)
\* the engines of the model: CRC parameters, start_byte, delimiter_byte,
\* allow_start_byte_errors.  The first is main.cpp's.
EngineConfigs ==
    {[p |-> CRC16, kStartByte |-> 129, kDelimiterByte |-> 0,
      kAllowStartByteErrors |-> FALSE],
     [p |-> CRC8, kStartByte |-> 129, kDelimiterByte |-> 0,
      kAllowStartByteErrors |-> TRUE],
     [p |-> CRC8X, kStartByte |-> 129, kDelimiterByte |-> 0,
      kAllowStartByteErrors |-> FALSE],
     [p |-> CRC8, kStartByte |-> 2, kDelimiterByte |-> 1,
      kAllowStartByteErrors |-> FALSE],
     [p |-> CRC8, kStartByte |-> 0, kDelimiterByte |-> 0,
      kAllowStartByteErrors |-> TRUE]}

kPostambleSize == cfg.p.W
kMaximumTxBufferSize == kMaximumTransmittedPayloadSize + 2 + kPostambleSize
kMaximumRxBufferSize == kMaximumReceivedPayloadSize + 2 + kPostambleSize

\* fed: the stream the harness loaded last (count streams so far), the
\* number of ReceiveData calls made since (2 stands for two or more) and
\* what the latest ReceiveData call returned ("none" before the first call,
\* "pending" while a call waits for bytes)
NotFed == [count |-> 0, kind |-> "none", calls |-> 0, returned |-> "none"]
Called(f) == [f EXCEPT !.calls = IF @ < 2 THEN @ + 1 ELSE 2,
                       !.returned = "pending"]

\* a reset that leaves the overhead placeholder as it is
KeepBuffer(buffer) == buffer

\* ResetTransmissionBuffer / ResetReceptionBuffer on the buffer: the
\* overhead placeholder is zeroed (the tracker is zeroed beside it)
ResetBuffer(buffer) == [buffer EXCEPT ![0] = 0]
NotParsing == [pc |-> "idle", bytes_read |-> 0, timeout_timer |-> 0, i |-> 0]

\* the state the constructor leaves
EngineInit ==
    /\ cfg \in EngineConfigs
    /\ transmission_buffer = [k \in 0..(kMaximumTxBufferSize - 1) |-> 0]
    /\ bytes_in_transmission_buffer = 0
    /\ reception_buffer = [k \in 0..(kMaximumRxBufferSize - 1) |-> 0]
    /\ bytes_in_reception_buffer = 0
    /\ transfer_status = kStandby
    /\ cobs_status = kCOBSStandby
    /\ crc_status = kCRCStandby
    /\ port = StreamMock
    /\ parse = NotParsing
    /\ last = NoCall
    /\ fed = NotFed

\* memcpy of the byte sequence src to buffer[at .. at + Len(src) - 1]
Memcpy(buffer, at, src) ==
    [k \in DOMAIN buffer |->
        IF k >= at /\ k < at + Len(src) THEN src[k - at + 1] ELSE buffer[k]]

\* the first n bytes of a buffer, as the sequence handed to _port.write
Bytes(buffer, n) == [k \in 1..n |-> buffer[k - 1]]

\* objects handed to WriteData: every byte sequence over ObjectBytes of up to
\* kMaximumTransmittedPayloadSize + 1 bytes
RECURSIVE SeqsOfLen(_, _)
SeqsOfLen(S, n) ==
    IF n = 0 THEN {<<>>}
    ELSE {Append(q, b) : q \in SeqsOfLen(S, n - 1), b \in S}

Objects ==
    UNION {SeqsOfLen(ObjectBytes, n) :
             n \in 0..(kMaximumTransmittedPayloadSize + 1)}

\* start_index arguments: the payload region, one past it, and the largest
\* uint16_t.  With 65535 the copy starts at buffer index 0 and stays inside
\* the array; start indices whose wrapped copy would leave the array are not
\* drawn.
StartIndices == (0..(kMaximumTransmittedPayloadSize + 1)) \cup {65535}

ResetTransmissionBuffer ==
    /\ parse.pc = "idle"
    /\ transmission_buffer' = ResetBuffer(transmission_buffer)
    /\ bytes_in_transmission_buffer' = 0
    /\ last' = [op |-> "ResetTransmissionBuffer"]
    /\ UNCHANGED <<cfg, rxVars, transfer_status, cobs_status, crc_status,
                   port, parse, fed>>

WriteData ==
    \E start_index \in StartIndices, object \in Objects :
        LET provided_bytes == Len(object)
            local_start_index == U16(start_index + 1)
            required_size == U16(local_start_index + provided_bytes)
            call == [op |-> "WriteData", start_index |-> start_index,
                     provided_bytes |-> provided_bytes]
        IN /\ parse.pc = "idle"
           /\ IF required_size > kMaximumTransmittedPayloadSize + 1
              THEN /\ transfer_status' = kWritePayloadTooSmallError
                   /\ last' = call @@ [ret |-> 0]
                   /\ UNCHANGED txVars
              ELSE /\ transmission_buffer' =
                          Memcpy(transmission_buffer, local_start_index, object)
                   /\ bytes_in_transmission_buffer' =
                          Max(bytes_in_transmission_buffer,
                              U16(required_size - 1))
                   /\ transfer_status' = kBytesWrittenToBuffer
                   /\ last' = call @@ [ret |-> U16(required_size - 1)]
           /\ UNCHANGED <<cfg, rxVars, cobs_status, crc_status, port, parse,
                          fed>>

\* ConstructPacket on the current transmission buffer: the buffer, the
\* returned size and the three status codes it leaves
ConstructPacket ==
    LET e == EncodePayload(transmission_buffer, kMaximumTxBufferSize,
                           U8(bytes_in_transmission_buffer),
                           cfg.kDelimiterByte)
        packet_size == e.ret
        c == CalculatePacketCRCChecksum(e.buf, kMaximumTxBufferSize, 0,
                                        packet_size, cfg.p)
        a == AddCRCChecksumToBuffer(e.buf, kMaximumTxBufferSize, packet_size,
                                    c.ret, cfg.p)
    IN IF packet_size = 0
       THEN [buf |-> e.buf, ret |-> 0, transfer_status |-> e.status,
             cobs_status |-> e.status, crc_status |-> crc_status]
       ELSE IF c.status # kCRCChecksumCalculated
       THEN [buf |-> e.buf, ret |-> 0, transfer_status |-> c.status,
             cobs_status |-> e.status, crc_status |-> c.status]
       ELSE IF a.ret = 0
       THEN [buf |-> a.buf, ret |-> 0, transfer_status |-> a.status,
             cobs_status |-> e.status, crc_status |-> a.status]
       ELSE [buf |-> a.buf, ret |-> a.ret,
             transfer_status |-> kPacketConstructed,
             cobs_status |-> e.status, crc_status |-> a.status]

\* SendData.  The values returned by the two _port.write calls are dropped
\* by the code; last.written records how many bytes the port took and
\* last.payload the payload bytes the tracker covered at the call.
SendData ==
    LET c == ConstructPacket
        combined_size == c.ret
        preamble == <<cfg.kStartByte, U8(bytes_in_transmission_buffer)>>
        w1 == MockWrite(port, preamble, 0)
        w2 == MockWrite(w1.port, Bytes(c.buf, combined_size), 0)
        payload == [k \in 1..U8(bytes_in_transmission_buffer) |->
                      IF k < kMaximumTxBufferSize THEN transmission_buffer[k]
                      ELSE 0]
    IN /\ parse.pc = "idle"
       /\ cobs_status' = c.cobs_status
       /\ crc_status' = c.crc_status
       /\ IF combined_size # 0
          THEN /\ port' = w2.port
               /\ transfer_status' = kPacketSent
               /\ transmission_buffer' = ResetBuffer(c.buf)
               /\ bytes_in_transmission_buffer' = 0
               /\ last' = [op |-> "SendData", ret |-> TRUE,
                           payload |-> payload,
                           frame |-> preamble \o Bytes(c.buf, combined_size),
                           written |-> w1.ret + w2.ret]
          ELSE /\ port' = port
               /\ transfer_status' = c.transfer_status
               /\ transmission_buffer' = c.buf
               /\ bytes_in_transmission_buffer' = bytes_in_transmission_buffer
               /\ last' = [op |-> "SendData", ret |-> FALSE,
                           payload |-> payload, frame |-> <<>>,
                           written |-> 0]
       /\ UNCHANGED <<cfg, rxVars, parse, fed>>

ResetReceptionBuffer ==
    /\ parse.pc = "idle"
    /\ reception_buffer' = ResetBuffer(reception_buffer)
    /\ bytes_in_reception_buffer' = 0
    /\ last' = [op |-> "ResetReceptionBuffer"]
    /\ UNCHANGED <<cfg, txVars, transfer_status, cobs_status, crc_status,
                   port, parse, fed>>

ReadStartIndices == (0..kMaximumReceivedPayloadSize) \cup {65535}

\* ReadData into a destination object of requested_bytes bytes that holds
\* DestinationByte everywhere before the call; last.object is the
\* destination after the call
ReadData ==
    \E start_index \in ReadStartIndices,
       requested_bytes \in 0..(kMaximumReceivedPayloadSize + 1) :
        LET local_start_index == U16(start_index + 1)
            requested_size == U16(local_start_index + requested_bytes)
            call == [op |-> "ReadData", start_index |-> start_index,
                     requested_bytes |-> requested_bytes]
        IN /\ parse.pc = "idle"
           /\ IF requested_size > bytes_in_reception_buffer + 1
              THEN /\ transfer_status' = kReadPayloadTooSmallError
                   /\ last' = call @@
                         [object |-> [k \in 1..requested_bytes |->
                                        DestinationByte],
                          ret |-> 0]
              ELSE /\ transfer_status' = kBytesReadFromBuffer
                   /\ last' = call @@
                         [object |-> [k \in 1..requested_bytes |->
                                  reception_buffer[local_start_index + k - 1]],
                          ret |-> U16(requested_size - 1)]
           /\ UNCHANGED <<cfg, txVars, rxVars, cobs_status, crc_status, port,
                          parse, fed>>

\* ParsePacket, first loop: reads for as long as data is available and no
\* start byte was read
\* a scan that looks at one byte only
ScanOnce(p) ==
    IF MockAvailable(p) > 0
    THEN LET r == MockRead(p)
         IN [port |-> r.port, found |-> r.ret = cfg.kStartByte]
    ELSE [port |-> p, found |-> FALSE]

RECURSIVE ScanLoop(_)
ScanLoop(p) ==
    IF MockAvailable(p) > 0
    THEN LET r == MockRead(p)
         IN IF r.ret = cfg.kStartByte
            THEN [port |-> r.port, found |-> TRUE]
            ELSE ScanLoop(r.port)
    ELSE [port |-> p, found |-> FALSE]

\* ParsePacket, packet loop, from the state s of the call (port, buf = the
\* reception buffer, bytes_read, timeout_timer, status) up to the point
\* where the loop is left ("postamble" with the delimiter found, "end"
\* without it) or spins with no data available ("packet")
RECURSIVE PacketLoop(_)
PacketLoop(s) ==
    IF /\ s.timeout_timer < kTimeout
       /\ s.bytes_read < kMaximumRxBufferSize - kPostambleSize
    THEN IF MockAvailable(s.port) > 0
         THEN LET r == MockRead(s.port)
                  byte_value == U8(r.ret)
                  t == [s EXCEPT !.port = r.port,
                                 !.buf[s.bytes_read] = byte_value,
                                 !.bytes_read = @ + 1]
              IN IF byte_value = cfg.kDelimiterByte
                 THEN [t EXCEPT !.status = kPacketDelimiterByteFound,
                                !.pc = "postamble", !.timeout_timer = 0]
                 ELSE PacketLoop([t EXCEPT !.timeout_timer = 0])
         ELSE [s EXCEPT !.pc = "packet"]
    ELSE [s EXCEPT !.pc = "end"]

\* a timer that runs on from one postamble byte to the next
RunningTimer(timeout_timer) == timeout_timer

\* ParsePacket, the timer is set to 0 for each postamble byte
PostambleTimer(timeout_timer) == 0

\* ParsePacket, postamble loop from byte s.i on, up to the point where all
\* bytes are read ("parsed"), the wait for one timed out ("fail") or the
\* loop spins with no data available ("postamble")
RECURSIVE PostambleLoop(_)
PostambleLoop(s) ==
    IF s.i < kPostambleSize
    THEN IF MockAvailable(s.port) > 0
         THEN LET r == MockRead(s.port)
              IN PostambleLoop([s EXCEPT !.port = r.port,
                                  !.buf[s.bytes_read + s.i] = U8(r.ret),
                                  !.i = @ + 1,
                                  !.timeout_timer = PostambleTimer(@)])
         ELSE IF s.timeout_timer >= kTimeout
              THEN [s EXCEPT !.status = kPostambleTimeoutError, !.pc = "fail"]
              ELSE [s EXCEPT !.pc = "postamble"]
    ELSE [s EXCEPT !.status = kPacketParsed, !.pc = "parsed"]

\* ValidatePacket that leaves transfer_status alone when the decoder fails
ValidateSilently(buffer, packet_size) ==
    LET combined_size == U16(packet_size + kPostambleSize)
        c == CalculatePacketCRCChecksum(buffer, kMaximumRxBufferSize, 0,
                                        combined_size, cfg.p)
        d == DecodePayload(buffer, kMaximumRxBufferSize, packet_size,
                           cfg.kDelimiterByte)
    IN IF c.status # kCRCChecksumCalculated
       THEN [buf |-> buffer, ret |-> 0, transfer_status |-> c.status,
             cobs_status |-> cobs_status, crc_status |-> c.status]
       ELSE IF c.ret # 0
       THEN [buf |-> buffer, ret |-> 0, transfer_status |-> kCRCCheckFailed,
             cobs_status |-> cobs_status, crc_status |-> c.status]
       ELSE IF d.ret = 0
       THEN [buf |-> d.buf, ret |-> 0, transfer_status |-> kPacketParsed,
             cobs_status |-> d.status, crc_status |-> c.status]
       ELSE [buf |-> d.buf, ret |-> d.ret,
             transfer_status |-> kPacketValidated,
             cobs_status |-> d.status, crc_status |-> c.status]

\* ValidatePacket with a decoder that runs whatever the checksum is
ValidateThenCheck(buffer, packet_size) ==
    LET combined_size == U16(packet_size + kPostambleSize)
        c == CalculatePacketCRCChecksum(buffer, kMaximumRxBufferSize, 0,
                                        combined_size, cfg.p)
        d == DecodePayload(buffer, kMaximumRxBufferSize, packet_size,
                           cfg.kDelimiterByte)
    IN IF c.status # kCRCChecksumCalculated
       THEN [buf |-> buffer, ret |-> 0, transfer_status |-> c.status,
             cobs_status |-> cobs_status, crc_status |-> c.status]
       ELSE IF c.ret # 0
       THEN [buf |-> d.buf, ret |-> 0, transfer_status |-> kCRCCheckFailed,
             cobs_status |-> d.status, crc_status |-> c.status]
       ELSE IF d.ret = 0
       THEN [buf |-> d.buf, ret |-> 0, transfer_status |-> d.status,
             cobs_status |-> d.status, crc_status |-> c.status]
       ELSE [buf |-> d.buf, ret |-> d.ret,
             transfer_status |-> kPacketValidated,
             cobs_status |-> d.status, crc_status |-> c.status]

\* ValidatePacket that decodes the packet whatever its checksum is
ValidateUnchecked(buffer, packet_size) ==
    LET combined_size == U16(packet_size + kPostambleSize)
        c == CalculatePacketCRCChecksum(buffer, kMaximumRxBufferSize, 0,
                                        combined_size, cfg.p)
        d == DecodePayload(buffer, kMaximumRxBufferSize, packet_size,
                           cfg.kDelimiterByte)
    IN IF c.status # kCRCChecksumCalculated
       THEN [buf |-> buffer, ret |-> 0, transfer_status |-> c.status,
             cobs_status |-> cobs_status, crc_status |-> c.status]
       ELSE IF d.ret = 0
       THEN [buf |-> d.buf, ret |-> 0, transfer_status |-> d.status,
             cobs_status |-> d.status, crc_status |-> c.status]
       ELSE [buf |-> d.buf, ret |-> d.ret,
             transfer_status |-> kPacketValidated,
             cobs_status |-> d.status, crc_status |-> c.status]

\* ValidatePacket on a parsed reception buffer: the buffer, the returned
\* payload size and the three status codes it leaves
ValidatePacket(buffer, packet_size) ==
    LET combined_size == U16(packet_size + kPostambleSize)
        c == CalculatePacketCRCChecksum(buffer, kMaximumRxBufferSize, 0,
                                        combined_size, cfg.p)
        d == DecodePayload(buffer, kMaximumRxBufferSize, packet_size,
                           cfg.kDelimiterByte)
    IN IF c.status # kCRCChecksumCalculated
       THEN [buf |-> buffer, ret |-> 0, transfer_status |-> c.status,
             cobs_status |-> cobs_status, crc_status |-> c.status]
       ELSE IF c.ret # 0
       THEN [buf |-> buffer, ret |-> 0, transfer_status |-> kCRCCheckFailed,
             cobs_status |-> cobs_status, crc_status |-> c.status]
       ELSE IF d.ret = 0
       THEN [buf |-> d.buf, ret |-> 0, transfer_status |-> d.status,
             cobs_status |-> d.status, crc_status |-> c.status]
       ELSE [buf |-> d.buf, ret |-> d.ret,
             transfer_status |-> kPacketValidated,
             cobs_status |-> d.status, crc_status |-> c.status]

\* a packet loop left without a delimiter reports the buffer full
FullWhateverRead(bytes_read) == kPacketOutOfBufferSpaceError

\* a packet loop left without a delimiter leaves the status of the scan
StartByteFoundKept(bytes_read) == kPacketStartByteFound

\* ParsePacket, the packet loop was left without a delimiter: the buffer is
\* full or the wait for a byte timed out
EndStatus(bytes_read) ==
    IF bytes_read >= kMaximumRxBufferSize - kPostambleSize
    THEN kPacketOutOfBufferSpaceError
    ELSE kPacketTimeoutError

\* a ReceiveData call from the state s of its ParsePacket on: runs until the
\* call returns or has to wait for the port or the timer
Continue(s) ==
    LET a == IF s.pc = "packet" THEN PacketLoop(s) ELSE s
        b == IF a.pc = "postamble" THEN PostambleLoop(a) ELSE a
        v == ValidatePacket(b.buf, b.bytes_read)
        call == [op |-> "ReceiveData"]
        \* the call record keeps what ParsePacket handed to ValidatePacket
        parsed == call @@ [packet_size |-> b.bytes_read, parsed |-> b.buf]
    IN /\ port' = b.port
       /\ CASE b.pc \in {"packet", "postamble"} ->
                 /\ reception_buffer' = b.buf
                 /\ transfer_status' = b.status
                 /\ parse' = [pc |-> b.pc, bytes_read |-> b.bytes_read,
                              timeout_timer |-> b.timeout_timer, i |-> b.i]
                 /\ last' = call @@ [ret |-> "pending"]
                 /\ fed' = s.fed
                 /\ bytes_in_reception_buffer' = s.tracker
                 /\ UNCHANGED <<cobs_status, crc_status>>
            [] b.pc = "end" ->
                 /\ reception_buffer' = b.buf
                 /\ transfer_status' = EndStatus(b.bytes_read)
                 /\ parse' = NotParsing
                 /\ last' = call @@ [ret |-> FALSE]
                 /\ fed' = [s.fed EXCEPT !.returned = "false"]
                 /\ bytes_in_reception_buffer' = s.tracker
                 /\ UNCHANGED <<cobs_status, crc_status>>
            [] b.pc = "fail" ->
                 /\ reception_buffer' = b.buf
                 /\ transfer_status' = b.status
                 /\ parse' = NotParsing
                 /\ last' = call @@ [ret |-> FALSE]
                 /\ fed' = [s.fed EXCEPT !.returned = "false"]
                 /\ bytes_in_reception_buffer' = s.tracker
                 /\ UNCHANGED <<cobs_status, crc_status>>
            [] b.pc = "parsed" ->
                 /\ reception_buffer' = v.buf
                 /\ cobs_status' = v.cobs_status
                 /\ crc_status' = v.crc_status
                 /\ parse' = NotParsing
                 /\ IF v.ret = 0
                    THEN /\ transfer_status' = v.transfer_status
                         /\ bytes_in_reception_buffer' = s.tracker
                         /\ last' = parsed @@ [ret |-> FALSE]
                         /\ fed' = [s.fed EXCEPT !.returned = "false"]
                    ELSE /\ transfer_status' = kPacketReceived
                         /\ bytes_in_reception_buffer' = v.ret
                         /\ last' = parsed @@ [ret |-> TRUE]
                         /\ fed' = [s.fed EXCEPT !.returned = "true"]
       /\ UNCHANGED <<cfg, txVars>>

\* ReceiveData is called: ResetReceptionBuffer, the scan for the start byte
\* and everything after it that needs no waiting.  On a line that delivers
\* without end the scan loop's test of _port.available() is a step of its
\* own (Rescan), before which a further byte may arrive; on the other lines
\* the bytes that arrive during the scan are taken to be there at the call.
ReceiveData ==
    LET scan == ScanLoop(port)
        status == IF scan.found THEN kPacketStartByteFound
                  ELSE transfer_status
    IN /\ parse.pc = "idle"
       /\ IF status = kPacketStartByteFound
          THEN Continue([port |-> scan.port,
                         buf |-> ResetBuffer(reception_buffer),
                         tracker |-> 0, pc |-> "packet", bytes_read |-> 0,
                         timeout_timer |-> 0, i |-> 0, status |-> status,
                         fed |-> Called(fed)])
          ELSE IF fed.kind = "endless"
          THEN /\ port' = scan.port
               /\ reception_buffer' = ResetBuffer(reception_buffer)
               /\ bytes_in_reception_buffer' = 0
               /\ parse' = [NotParsing EXCEPT !.pc = "scan"]
               /\ last' = [op |-> "ReceiveData", ret |-> "pending"]
               /\ fed' = Called(fed)
               /\ UNCHANGED <<cfg, txVars, transfer_status, cobs_status,
                              crc_status>>
          ELSE /\ port' = scan.port
               /\ reception_buffer' = ResetBuffer(reception_buffer)
               /\ bytes_in_reception_buffer' = 0
               /\ transfer_status' =
                     IF cfg.kAllowStartByteErrors
                     THEN kPacketStartByteNotFoundError
                     ELSE kNoBytesToParseFromBuffer
               /\ last' = [op |-> "ReceiveData", ret |-> FALSE]
               /\ fed' = [Called(fed) EXCEPT !.returned = "false"]
               /\ UNCHANGED <<cfg, txVars, cobs_status, crc_status, parse>>

Waiting == parse.pc \in {"packet", "postamble"}

\* the microsecond timer advances while the call spins on an empty port
Tick ==
    /\ Waiting
    /\ MockAvailable(port) = 0
    /\ parse.timeout_timer < kTimeout
    /\ parse' = [parse EXCEPT !.timeout_timer = @ + 1]
    /\ UNCHANGED <<cfg, txVars, rxVars, transfer_status, cobs_status,
                   crc_status, port, last, fed>>

\* the spinning call goes on: data became available or the timer ran out
Resume ==
    /\ Waiting
    /\ MockAvailable(port) > 0 \/ parse.timeout_timer >= kTimeout
    /\ Continue([port |-> port, buf |-> reception_buffer,
                 tracker |-> bytes_in_reception_buffer, pc |-> parse.pc,
                 bytes_read |-> parse.bytes_read,
                 timeout_timer |-> parse.timeout_timer, i |-> parse.i,
                 status |-> transfer_status, fed |-> fed])

\* the scan loop of a call on an endless line tests _port.available() again:
\* it reads on when there is data, and leaves the loop when there is none
Rescan ==
    LET scan == ScanLoop(port)
        packet == [port |-> scan.port, buf |-> reception_buffer,
                   tracker |-> bytes_in_reception_buffer, pc |-> "packet",
                   bytes_read |-> 0, timeout_timer |-> 0, i |-> 0,
                   status |-> kPacketStartByteFound, fed |-> fed]
    IN /\ parse.pc = "scan"
       /\ IF scan.found
          THEN Continue(packet)
          ELSE IF MockAvailable(port) > 0
          THEN /\ port' = scan.port
               /\ UNCHANGED <<cfg, txVars, rxVars, transfer_status,
                              cobs_status, crc_status, parse, last, fed>>
          ELSE IF transfer_status = kPacketStartByteFound
          THEN Continue(packet)
          ELSE /\ transfer_status' =
                     IF cfg.kAllowStartByteErrors
                     THEN kPacketStartByteNotFoundError
                     ELSE kNoBytesToParseFromBuffer
               /\ parse' = NotParsing
               /\ last' = [op |-> "ReceiveData", ret |-> FALSE]
               /\ fed' = [fed EXCEPT !.returned = "false"]
               /\ UNCHANGED <<cfg, txVars, rxVars, cobs_status, crc_status,
                              port>>

(***************************************************************************)
(* The test harness around the engine                                      *)
(* (test_serial_transfer_protocol_library.cpp): it builds inbound frames   *)
(* with a COBSProcessor and a CRCProcessor of its own, changes single      *)
(* bytes of them, and writes them into the rx_buffer of the mock port.     *)
(***************************************************************************)
\* [start_byte][packet][checksum] for a payload under configuration c
Frame(c, payload) ==
    LET n == Len(payload)
        size == n + 2 + c.p.W
        buffer == [k \in 0..(size - 1) |->
                     IF k >= 1 /\ k <= n THEN payload[k] ELSE 0]
        e == EncodePayload(buffer, size, n, c.kDelimiterByte)
        crc == CalculatePacketCRCChecksum(e.buf, size, 0, n + 2, c.p)
        a == AddCRCChecksumToBuffer(e.buf, size, n + 2, crc.ret, c.p)
    IN <<c.kStartByte>> \o Bytes(a.buf, size)

InboundPayloads ==
    UNION {SeqsOfLen(InboundBytes, n) :
             n \in 1..kMaximumReceivedPayloadSize}

\* the streams the harness presents under configuration c: nothing, every
\* frame, and every frame with one byte after the start byte changed
Streams(c) ==
    {[kind |-> "empty", payload |-> <<>>, at |-> 0, bytes |-> <<>>]}
    \cup {[kind |-> "frame", payload |-> q, at |-> 0, bytes |-> Frame(c, q)] :
            q \in InboundPayloads}
    \cup UNION {LET f == Frame(c, q)
                IN {[kind |-> "changed", payload |-> q, at |-> x[1],
                     bytes |-> [f EXCEPT ![x[1]] = x[2]]] :
                      x \in {y \in (2..Len(f)) \X ChangedBytes :
                               f[y[1]] # y[2]}} :
                  q \in InboundPayloads}

StreamsOf == [c \in EngineConfigs |-> Streams(c)]

\* the harness resets the port and loads a stream into its rx_buffer; it
\* goes on to a further stream when the engine holds a received payload
Feed ==
    \E s \in StreamsOf[cfg] :
        /\ parse.pc = "idle"
        /\ fed.count < MaxFeeds
        /\ fed.count = 0 \/ bytes_in_reception_buffer # 0
        /\ port' = [MockReset(port) EXCEPT
                      !.rx_buffer = [k \in 0..(port_buffer_size - 1) |->
                                       IF k < Len(s.bytes) THEN s.bytes[k + 1]
                                       ELSE -1]]
        /\ fed' = s @@ [count |-> fed.count + 1, calls |-> 0,
                         returned |-> fed.returned]
        /\ last' = [op |-> "Feed"]
        /\ UNCHANGED <<cfg, txVars, rxVars, transfer_status, cobs_status,
                       crc_status, parse>>

\* the harness copies the frame just sent from the port's tx_buffer to its
\* rx_buffer, leaving out the payload-size byte at tx_buffer[1]
Loopback ==
    /\ parse.pc = "idle"
    /\ last.op = "SendData" /\ last.ret = TRUE
    /\ port' = [port EXCEPT
                  !.rx_buffer = [k \in 0..(port_buffer_size - 1) |->
                                   IF k = 0 THEN port.tx_buffer[0]
                                   ELSE IF k + 1 < port.tx_buffer_index
                                        THEN port.tx_buffer[k + 1]
                                        ELSE port.rx_buffer[k]],
                  !.rx_buffer_index = 0]
    /\ fed' = [count |-> fed.count + 1, kind |-> "loopback",
               payload |-> last.payload, calls |-> 0,
               returned |-> fed.returned]
    /\ last' = [op |-> "Loopback"]
    /\ UNCHANGED <<cfg, txVars, rxVars, transfer_status, cobs_status,
                   crc_status, parse>>

(***************************************************************************)
(* The line: what a serial connection puts into the port's rx_buffer.      *)
(* Bytes that precede a frame, frames that arrive in one piece or byte     *)
(* after byte while a ReceiveData call waits, frames that stop arriving,   *)
(* runs of bytes without a delimiter, and the shortest packet there is.    *)
(***************************************************************************)
\* runs of up to MaxNoise bytes, none of them the start byte
Noise(c) ==
    UNION {SeqsOfLen(InboundBytes \ {c.kStartByte}, n) : n \in 0..MaxNoise}

\* [start_byte][delimiter_byte][checksum of that one-byte packet]
BareFrame(c) ==
    LET size == 1 + c.p.W
        buffer == [k \in 0..(size - 1) |->
                     IF k = 0 THEN c.kDelimiterByte ELSE 0]
        crc == CalculatePacketCRCChecksum(buffer, size, 0, 1, c.p)
        a == AddCRCChecksumToBuffer(buffer, size, 1, crc.ret, c.p)
    IN <<c.kStartByte>> \o Bytes(a.buf, size)

\* the payloads of the frames on the line: those of the harness and the one
\* made of the start byte's value
LinePayloads(c) == InboundPayloads \cup {<<c.kStartByte>>}

\* what the line may carry under configuration c
LineStreams(c) ==
    {[kind |-> "frame", payload |-> q, noise |-> n,
      bytes |-> n \o Frame(c, q)] : q \in LinePayloads(c), n \in Noise(c)}
    \cup {[kind |-> "overlong", payload |-> <<>>, noise |-> <<>>,
           bytes |-> <<c.kStartByte>> \o [k \in 1..m |-> x]] :
             m \in {kMaximumReceivedPayloadSize + 2,
                    kMaximumReceivedPayloadSize + 3},
             x \in InboundBytes \ {c.kDelimiterByte}}
    \cup {[kind |-> "bare", payload |-> <<>>, noise |-> <<>>,
           bytes |-> BareFrame(c)]}

LineStreamsOf == [c \in EngineConfigs |-> LineStreams(c)]

\* the port is reset and the line starts a stream: the bytes up to some
\* point at or after the end of the noise are in the port's rx_buffer when
\* the engine looks next (all of them: fed.whole), the rest is still on its
\* way (fed.pending)
FeedLine ==
    \E s \in LineStreamsOf[cfg] :
        \E k \in Len(s.noise)..Len(s.bytes) :
            /\ parse.pc = "idle"
            /\ fed.count < MaxLineFeeds
            /\ fed.count = 0 \/ bytes_in_reception_buffer # 0
            /\ port' = [MockReset(port) EXCEPT
                          !.rx_buffer = [j \in 0..(port_buffer_size - 1) |->
                                           IF j < k THEN s.bytes[j + 1]
                                           ELSE -1]]
            /\ fed' = s @@ [whole |-> k = Len(s.bytes),
                             pending |-> SubSeq(s.bytes, k + 1, Len(s.bytes)),
                             count |-> fed.count + 1, calls |-> 0,
                             returned |-> fed.returned]
            /\ last' = [op |-> "FeedLine"]
            /\ UNCHANGED <<cfg, txVars, rxVars, transfer_status, cobs_status,
                           crc_status, parse>>

\* the next byte of the stream reaches the port while a ReceiveData call
\* waits for data
Arrive ==
    /\ Waiting
    /\ fed.kind \in {"frame", "overlong", "bare"}
    /\ "pending" \in DOMAIN fed
    /\ fed.pending # <<>>
    /\ port' = [port EXCEPT
                  !.rx_buffer[Len(fed.bytes) - Len(fed.pending)] =
                      Head(fed.pending)]
    /\ fed' = [fed EXCEPT !.pending = Tail(@)]
    /\ UNCHANGED <<cfg, txVars, rxVars, transfer_status, cobs_status,
                   crc_status, parse, last>>

\* a line that delivers without end: the byte x over and over, none of them
\* the start byte or the delimiter, after the start byte or without one
FeedEndless ==
    \E x \in InboundBytes \ {cfg.kStartByte, cfg.kDelimiterByte} :
        \E started \in BOOLEAN :
            /\ parse.pc = "idle"
            /\ fed.count < MaxLineFeeds
            /\ port' = [MockReset(port) EXCEPT
                          !.rx_buffer[0] = IF started THEN cfg.kStartByte
                                           ELSE x]
            /\ fed' = [kind |-> "endless", payload |-> <<>>, noise |-> <<>>,
                       bytes |-> <<x>>, whole |-> FALSE, pending |-> <<>>,
                       count |-> fed.count + 1, calls |-> 0,
                       returned |-> fed.returned]
            /\ last' = [op |-> "FeedEndless"]
            /\ UNCHANGED <<cfg, txVars, rxVars, transfer_status, cobs_status,
                           crc_status, parse>>

\* the endless line delivers its next byte as soon as the call has read the
\* one before
ArriveOn ==
    /\ parse.pc \in {"scan", "packet", "postamble"}
    /\ fed.kind = "endless"
    /\ MockAvailable(port) = 0
    /\ port' = [MockReset(port) EXCEPT !.rx_buffer[0] = fed.bytes[1]]
    /\ UNCHANGED <<cfg, txVars, rxVars, transfer_status, cobs_status,
                   crc_status, parse, last, fed>>

(***************************************************************************)
(* Specifications.                                                         *)
(*   Spec      the engine in the harness's loopback: payloads are written  *)
(*             and sent on an empty port, the frame is copied to the       *)
(*             receive side, received and read                             *)
(*   SpecTx    the transmit side, the port filling up with frames          *)
(*   SpecRx    the receive side on streams the harness presents            *)
(*   SpecLine  the receive side on a line that delivers bytes over time    *)
(*   SpecLineLive  the same, with the timer advancing and a spinning call  *)
(*             running on                                                  *)
(*   SpecErr   the line, ReceiveData and SendData on an empty buffer       *)
(*   SpecCOBS  the COBS codec on its own                                   *)
(*   SpecCRC   the CRC processor on its own                                *)
(***************************************************************************)
DefaultConfig ==
    [p |-> CRC16, kStartByte |-> 129, kDelimiterByte |-> 0,
     kAllowStartByteErrors |-> FALSE]

EngineIdle == EngineInit /\ cfg = DefaultConfig

Init == EngineInit /\ CodecIdle /\ CrcIdle

\* the harness writes and sends while nothing is on the port yet
PortEmpty == port.tx_buffer_index = 0
\* the harness uses the engine while the port has room
PortHasRoom == port.tx_buffer_index < port_buffer_size

Next ==
    \/ PortEmpty /\ WriteData /\ UNCHANGED <<codec, crcp>>
    \/ PortEmpty /\ SendData /\ UNCHANGED <<codec, crcp>>
    \/ PortEmpty /\ ResetTransmissionBuffer /\ UNCHANGED <<codec, crcp>>
    \/ Loopback /\ UNCHANGED <<codec, crcp>>
    \/ ReceiveData /\ UNCHANGED <<codec, crcp>>
    \/ Tick /\ UNCHANGED <<codec, crcp>>
    \/ Resume /\ UNCHANGED <<codec, crcp>>
    \/ ReadData /\ UNCHANGED <<codec, crcp>>
    \/ ResetReceptionBuffer /\ UNCHANGED <<codec, crcp>>

Spec == Init /\ [][Next]_vars

TxNext ==
    \/ PortHasRoom /\ WriteData /\ UNCHANGED <<codec, crcp>>
    \/ PortHasRoom /\ SendData /\ UNCHANGED <<codec, crcp>>
    \/ PortHasRoom /\ ResetTransmissionBuffer /\ UNCHANGED <<codec, crcp>>

SpecTx == Init /\ [][TxNext]_vars

\* the harness hands WriteData start indices inside the payload region or
\* one past it only
InRangeWrite ==
    last'.op = "WriteData"
    => last'.start_index <= kMaximumTransmittedPayloadSize + 1

TxInRangeNext ==
    \/ PortHasRoom /\ WriteData /\ InRangeWrite /\ UNCHANGED <<codec, crcp>>
    \/ PortHasRoom /\ SendData /\ UNCHANGED <<codec, crcp>>
    \/ PortHasRoom /\ ResetTransmissionBuffer /\ UNCHANGED <<codec, crcp>>

SpecTxInRange == Init /\ [][TxInRangeNext]_vars

RxNext ==
    \/ Feed /\ UNCHANGED <<codec, crcp>>
    \/ ReceiveData /\ UNCHANGED <<codec, crcp>>
    \/ Tick /\ UNCHANGED <<codec, crcp>>
    \/ Resume /\ UNCHANGED <<codec, crcp>>
    \/ ReadData /\ UNCHANGED <<codec, crcp>>
    \/ ResetReceptionBuffer /\ UNCHANGED <<codec, crcp>>

SpecRx == Init /\ [][RxNext]_vars

\* two frames one after another, where the port has room for both
PairStreams(c) ==
    {s \in {[kind |-> "pair", payloads |-> <<q[1], q[2]>>,
             bytes |-> Frame(c, q[1]) \o Frame(c, q[2])] :
               q \in InboundPayloads \X InboundPayloads} :
       Len(s.bytes) <= port_buffer_size}

PairStreamsOf == [c \in EngineConfigs |-> PairStreams(c)]

\* the harness resets the port and loads two frames, back to back, into its
\* rx_buffer
FeedPair ==
    \E s \in PairStreamsOf[cfg] :
        /\ parse.pc = "idle"
        /\ fed.count < MaxFeeds
        /\ port' = [MockReset(port) EXCEPT
                      !.rx_buffer = [k \in 0..(port_buffer_size - 1) |->
                                       IF k < Len(s.bytes) THEN s.bytes[k + 1]
                                       ELSE -1]]
        /\ fed' = s @@ [count |-> fed.count + 1, calls |-> 0,
                         returned |-> fed.returned]
        /\ last' = [op |-> "FeedPair"]
        /\ UNCHANGED <<cfg, txVars, rxVars, transfer_status, cobs_status,
                       crc_status, parse>>

PairNext ==
    \/ FeedPair /\ UNCHANGED <<codec, crcp>>
    \/ ReceiveData /\ UNCHANGED <<codec, crcp>>

SpecPair == Init /\ [][PairNext]_vars

\* the port after a reset with the bytes of a stream in its rx_buffer
Loaded(bytes) ==
    [MockReset(port) EXCEPT
       !.rx_buffer = [k \in 0..(port_buffer_size - 1) |->
                        IF k < Len(bytes) THEN bytes[k + 1] ELSE -1]]

\* the harness resets the port and loads a stream of a payload of at most
\* one byte, whatever the engine did before
FeedAnew ==
    \E s \in {t \in StreamsOf[cfg] : Len(t.payload) <= 1} :
        /\ parse.pc = "idle"
        /\ fed.count < MaxFeeds
        /\ port' = Loaded(s.bytes)
        /\ fed' = s @@ [count |-> fed.count + 1, calls |-> 0,
                         returned |-> fed.returned]
        /\ last' = [op |-> "FeedAnew"]
        /\ UNCHANGED <<cfg, txVars, rxVars, transfer_status, cobs_status,
                       crc_status, parse>>

\* streams reach an engine that received, failed to receive, reset or tried
\* to send before
PriorNext ==
    \/ FeedAnew /\ UNCHANGED <<codec, crcp>>
    \/ ReceiveData /\ UNCHANGED <<codec, crcp>>
    \/ Tick /\ UNCHANGED <<codec, crcp>>
    \/ Resume /\ UNCHANGED <<codec, crcp>>
    \/ ResetReceptionBuffer /\ UNCHANGED <<codec, crcp>>
    \/ SendData /\ UNCHANGED <<codec, crcp>>

SpecPrior == Init /\ [][PriorNext]_vars

LineNext ==
    \/ FeedLine /\ UNCHANGED <<codec, crcp>>
    \/ Arrive /\ UNCHANGED <<codec, crcp>>
    \/ ReceiveData /\ UNCHANGED <<codec, crcp>>
    \/ Tick /\ UNCHANGED <<codec, crcp>>
    \/ Resume /\ UNCHANGED <<codec, crcp>>
    \/ ReadData /\ UNCHANGED <<codec, crcp>>
    \/ ResetReceptionBuffer /\ UNCHANGED <<codec, crcp>>

SpecLine == Init /\ [][LineNext]_vars

\* the enabling condition of Resume
ResumeEnabled ==
    /\ Waiting
    /\ MockAvailable(port) > 0 \/ parse.timeout_timer >= kTimeout

\* the line, finite or endless, and the calls of ReceiveData alone
LiveNext ==
    \/ FeedLine /\ UNCHANGED <<codec, crcp>>
    \/ FeedEndless /\ UNCHANGED <<codec, crcp>>
    \/ Arrive /\ UNCHANGED <<codec, crcp>>
    \/ ArriveOn /\ UNCHANGED <<codec, crcp>>
    \/ ReceiveData /\ UNCHANGED <<codec, crcp>>
    \/ Tick /\ UNCHANGED <<codec, crcp>>
    \/ Resume /\ UNCHANGED <<codec, crcp>>
    \/ Rescan /\ UNCHANGED <<codec, crcp>>

\* the timer advances and a running call keeps running: weak fairness of
\* Tick, of Resume and of Rescan, the latter two written out with their
\* enabling conditions
SpecLineLive ==
    /\ Init
    /\ [][LiveNext]_vars
    /\ WF_vars(Tick /\ UNCHANGED <<codec, crcp>>)
    /\ \/ []<>(~ResumeEnabled)
       \/ []<><<Resume /\ UNCHANGED <<codec, crcp>>>>_vars
    /\ \/ []<>(parse.pc # "scan")
       \/ []<><<Rescan /\ UNCHANGED <<codec, crcp>>>>_vars

\* the line, the calls of ReceiveData and SendData called with nothing
\* written to the transmission buffer
ErrNext ==
    \/ FeedLine /\ UNCHANGED <<codec, crcp>>
    \/ Arrive /\ UNCHANGED <<codec, crcp>>
    \/ ReceiveData /\ UNCHANGED <<codec, crcp>>
    \/ Tick /\ UNCHANGED <<codec, crcp>>
    \/ Resume /\ UNCHANGED <<codec, crcp>>
    \/ SendData /\ UNCHANGED <<codec, crcp>>

SpecErr == Init /\ [][ErrNext]_vars

CodecNext ==
    \/ CallEncodePayload /\ UNCHANGED <<crcp, engineVars>>
    \/ CallDecodePayload /\ UNCHANGED <<crcp, engineVars>>

InitCOBS == CodecInit /\ CrcIdle /\ EngineIdle

SpecCOBS == InitCOBS /\ [][CodecNext]_vars

CrcNext ==
    \/ CallCalculatePacketCRCChecksum /\ UNCHANGED <<codec, engineVars>>
    \/ CallAddCRCChecksumToBuffer /\ UNCHANGED <<codec, engineVars>>
    \/ CallReadCRCChecksumFromBuffer /\ UNCHANGED <<codec, engineVars>>

InitCRC == CrcInit /\ CodecIdle /\ EngineIdle

SpecCRC == InitCRC /\ [][CrcNext]_vars

\* the CRC processor in a build for either width of int
IntBits == {16, 32}
\* the bytes of the buffers these builds are handed
BuildBytes == {0, 255}

InitCRCBuilds ==
    /\ crcp \in {[p |-> [q EXCEPT !.int_bits = n], buf |-> b,
                  crc_status |-> kCRCStandby, checksum |-> 0,
                  covers |-> <<>>, sealed |-> -1, calls |-> 0,
                  last |-> NoCall] :
                    q \in CRCParameters,
                    b \in [0..(CrcBufferSize - 1) -> BuildBytes],
                    n \in IntBits}
    /\ CodecIdle
    /\ EngineIdle

SpecCRCBuilds == InitCRCBuilds /\ [][CrcNext]_vars

(***************************************************************************)
(* Claims.                                                                 *)
(***************************************************************************)
Encoded(c) == c.op = "EncodePayload" /\ c.status = kPayloadEncoded

\* C2: COBS round trip for every delimiter.  An EncodePayload call with a
\* payload size P in 1..254 that fits the buffer, on a buffer whose
\* overhead placeholder buf[0] is 0, returns P + 2 with kPayloadEncoded;
\* and the DecodePayload call of size P + 2 that follows it returns P and
\* leaves buf[1..P] as it was before the encoding.
C2_RoundTripAnyDelimiter ==
    /\ ( /\ codec.last.op = "EncodePayload"
         /\ codec.last.size \in kMinPayloadSize..kMaxPayloadSize
         /\ codec.last.size + 2 <= CobsBufferSize
         /\ codec.last.pre[0] = 0 )
       => /\ codec.last.ret = codec.last.size + 2
          /\ codec.last.status = kPayloadEncoded
    /\ ( /\ Encoded(codec.prev)
         /\ codec.last.op = "DecodePayload"
         /\ codec.last.size = codec.prev.ret )
       => /\ codec.last.ret = codec.prev.size
          /\ codec.last.status = kPayloadDecoded
          /\ \A k \in 1..codec.prev.size : codec.buf[k] = codec.prev.pre[k]

\* C7: CRC self-check identity for every configuration.  Once the checksum
\* calculated over buffer[0 .. n-1] has been appended at index n with
\* AddCRCChecksumToBuffer, CalculatePacketCRCChecksum over
\* buffer[0 .. n+W-1] returns 0.
C7_SelfCheckAnyConfiguration ==
    ( /\ crcp.sealed >= 0
      /\ crcp.last.op = "CalculatePacketCRCChecksum"
      /\ crcp.last.status = kCRCChecksumCalculated
      /\ crcp.last.start_index = 0
      /\ crcp.last.size = crcp.sealed + crcp.p.W )
    => crcp.last.ret = 0

\* C8: after every SendData call that returns true the transmission buffer
\* is ready for the next payload: bytes_in_transmission_buffer is 0, the
\* overhead placeholder transmission_buffer[0] is 0 and transfer_status is
\* kPacketSent, after any number of write/send cycles.
C8_SentLeavesBufferReset ==
    (last.op = "SendData" /\ last.ret = TRUE)
    => /\ bytes_in_transmission_buffer = 0
       /\ transmission_buffer[0] = 0
       /\ transfer_status = kPacketSent

\* a second or later successful SendData: frames sent earlier are still on
\* the port
C8_SentAgain ==
    /\ last.op = "SendData" /\ last.ret = TRUE
    /\ Len(last.payload) >= 1
    /\ port.tx_buffer_index > Len(last.frame)

\* C9: WriteData bounds check over the whole 16-bit argument range, sums
\* taken modulo 2^16: when start_index + provided_bytes exceeds the maximum
\* payload size the call returns 0 with kWritePayloadTooSmallError and
\* leaves the buffer and the tracker alone; otherwise it reports
\* kBytesWrittenToBuffer, returns start_index + provided_bytes and changes
\* no index outside start_index+1 .. start_index+provided_bytes, never
\* index 0 and never an index above the maximum payload size.
C9_WriteDataStep ==
    last'.op = "WriteData" =>
        LET s == last'.start_index
            n == last'.provided_bytes
        IN IF U16(s + n) > kMaximumTransmittedPayloadSize
           THEN /\ last'.ret = 0
                /\ transfer_status' = kWritePayloadTooSmallError
                /\ UNCHANGED txVars
           ELSE /\ last'.ret = U16(s + n)
                /\ transfer_status' = kBytesWrittenToBuffer
                /\ transmission_buffer'[0] = transmission_buffer[0]
                /\ \A k \in DOMAIN transmission_buffer :
                      (k < s + 1 \/ k > s + n
                         \/ k > kMaximumTransmittedPayloadSize)
                      => transmission_buffer'[k] = transmission_buffer[k]

C9_WriteDataBounds == [][C9_WriteDataStep]_vars

\* C10: ReadData bounds check and non-destructiveness: when start_index +
\* requested_bytes exceeds bytes_in_reception_buffer the call returns 0 with
\* kReadPayloadTooSmallError and leaves the destination untouched; otherwise
\* it copies reception_buffer[start_index+1 .. start_index+requested_bytes]
\* and returns start_index + requested_bytes; either way the reception
\* buffer and its tracker are unchanged.
C10_ReadDataStep ==
    last'.op = "ReadData" =>
        LET s == last'.start_index
            n == last'.requested_bytes
        IN /\ UNCHANGED rxVars
           /\ IF U16(s + n) > bytes_in_reception_buffer
              THEN /\ last'.ret = 0
                   /\ transfer_status' = kReadPayloadTooSmallError
                   /\ \A k \in 1..n : last'.object[k] = DestinationByte
              ELSE /\ last'.ret = U16(s + n)
                   /\ \A k \in 1..n :
                         last'.object[k] = reception_buffer[U16(s + k)]

C10_ReadDataBounds == [][C10_ReadDataStep]_vars

\* C4: ReceiveData never claims a partial success: once ReceiveData has
\* returned false bytes_in_reception_buffer is 0 and every ReadData of at
\* least one byte fails with kReadPayloadTooSmallError until a ReceiveData
\* returns true; bytes_in_reception_buffer is non-zero only when the latest
\* ReceiveData returned true.
C4_NoPartialReceive ==
    /\ fed.returned = "false" => bytes_in_reception_buffer = 0
    /\ bytes_in_reception_buffer # 0 => fed.returned = "true"
    /\ ( /\ fed.returned = "false"
         /\ last.op = "ReadData"
         /\ last.requested_bytes >= 1 )
       => /\ last.ret = 0
          /\ transfer_status = kReadPayloadTooSmallError

\* C5: SendData is all-or-nothing with respect to the stream: a call that
\* returns true has appended the complete frame, 2 preamble bytes and
\* bytes_in_transmission_buffer + 2 + W packet and checksum bytes; a call
\* that returns false has written nothing; also when the port cannot take
\* all the bytes.
C5_SendDataStep ==
    last'.op = "SendData" =>
        IF last'.ret
        THEN port'.tx_buffer_index - port.tx_buffer_index
                = 2 + bytes_in_transmission_buffer + 2 + kPostambleSize
        ELSE port' = port

C5_SendAllOrNothing == [][C5_SendDataStep]_vars

\* C6: outbound wire format: a successful SendData of a payload of P bytes
\* appends to the stream exactly P + 4 + W bytes: the start byte, P, the
\* COBS overhead byte, the P encoded payload bytes, the delimiter, and the
\* W checksum bytes, most significant first, of the checksum over the P + 2
\* packet bytes.
C6_WireFormatStep ==
    (last'.op = "SendData" /\ last'.ret) =>
        LET P == bytes_in_transmission_buffer
            W == kPostambleSize
            from == port.tx_buffer_index
            appended == [k \in 1..(port'.tx_buffer_index - from) |->
                           port'.tx_buffer[from + k - 1]]
            buffer == [k \in 0..(P + 1) |->
                         IF k >= 1 /\ k <= P THEN last'.payload[k] ELSE 0]
            e == EncodePayload(buffer, P + 2, P, cfg.kDelimiterByte)
            crc == CalculatePacketCRCChecksum(e.buf, P + 2, 0, P + 2, cfg.p)
        IN /\ Len(appended) = P + 4 + W
           /\ appended[1] = cfg.kStartByte
           /\ appended[2] = P
           /\ \A k \in 0..(P + 1) : appended[3 + k] = e.buf[k]
           /\ appended[P + 4] = cfg.kDelimiterByte
           /\ \A j \in 1..W :
                 appended[P + 4 + j] = (crc.ret \div Pow2(8 * (W - j))) % 256

C6_WireFormat == [][C6_WireFormatStep]_vars

\* the first ReceiveData call on the frame the harness looped back has
\* returned
LoopbackReceived ==
    /\ fed.kind = "loopback"
    /\ fed.calls = 1
    /\ parse.pc = "idle"
    /\ last.op = "ReceiveData"

\* C1: end-to-end round trip with the delimiter 0: a payload of P bytes that
\* was written, sent, and presented without the payload-size byte to the
\* engine's ReceiveData is received: ReceiveData returns true with
\* kPacketReceived, bytes_in_reception_buffer is P, reception_buffer[0] is 0,
\* and ReadData(0, P bytes) then returns exactly the payload.
C1_RoundTripStep ==
    (LoopbackReceived /\ cfg.kDelimiterByte = 0) =>
        LET P == Len(fed.payload)
        IN /\ last.ret = TRUE
           /\ transfer_status = kPacketReceived
           /\ bytes_in_reception_buffer = P
           /\ reception_buffer[0] = 0
           /\ \A k \in 1..P : reception_buffer[k] = fed.payload[k]
           /\ ( /\ last'.op = "ReadData"
                /\ last'.start_index = 0
                /\ last'.requested_bytes = P )
              => /\ last'.ret = P
                 /\ last'.object = fed.payload

C1_LoopbackRoundTrip == [][C1_RoundTripStep]_vars

\* C3: no silent acceptance of corruption: ReceiveData on a stream holding a
\* valid frame with exactly one byte of its packet or checksum changed
\* returns false, and transfer_status is kCRCCheckFailed,
\* kDecoderDelimiterFoundTooEarly or kDecoderUnableToFindDelimiter.
C3_ChangedFrameRejected ==
    ( /\ fed.kind = "changed"
      /\ fed.calls = 1
      /\ parse.pc = "idle"
      /\ last.op = "ReceiveData" )
    => /\ last.ret = FALSE
       /\ transfer_status \in {kCRCCheckFailed,
                               kDecoderDelimiterFoundTooEarly,
                               kDecoderUnableToFindDelimiter}

\* the call c passed the size checks of EncodePayload / of DecodePayload
EncodeSizeAccepted(c) ==
    /\ c.op = "EncodePayload"
    /\ c.size \in kMinPayloadSize..kMaxPayloadSize
    /\ c.size + 2 <= CobsBufferSize

DecodeSizeAccepted(c) ==
    /\ c.op = "DecodePayload"
    /\ c.size \in kMinPacketSize..kMaxPacketSize
    /\ c.size <= CobsBufferSize

\* the decoding of call c went past the checks into the loop
DecodeAttempted(c) ==
    /\ c.op = "DecodePayload"
    /\ c.status \in {kPayloadDecoded, kDecoderDelimiterFoundTooEarly,
                     kDecoderUnableToFindDelimiter}

\* C18: double-processing guards: EncodePayload on a buffer that was just
\* encoded fails with kPayloadAlreadyEncoded, DecodePayload on a buffer on
\* which a decoding was attempted (successfully or ending in
\* kDecoderDelimiterFoundTooEarly / kDecoderUnableToFindDelimiter) fails
\* with kPacketAlreadyDecoded, and either leaves the buffer unchanged.
C18_DoubleProcessingGuards ==
    /\ (Encoded(codec.prev) /\ EncodeSizeAccepted(codec.last))
       => /\ codec.last.ret = 0
          /\ codec.last.status = kPayloadAlreadyEncoded
          /\ codec.buf = codec.last.pre
    /\ (DecodeAttempted(codec.prev) /\ DecodeSizeAccepted(codec.last))
       => /\ codec.last.ret = 0
          /\ codec.last.status = kPacketAlreadyDecoded
          /\ codec.buf = codec.last.pre

\* a decoding that failed inside the loop was followed by a second decoding
C18_DecodedAgainAfterFailure ==
    /\ codec.prev.op = "DecodePayload"
    /\ codec.prev.status \in {kDecoderDelimiterFoundTooEarly,
                              kDecoderUnableToFindDelimiter}
    /\ DecodeSizeAccepted(codec.last)
    /\ codec.last.status = kPacketAlreadyDecoded

\* the first ReceiveData call since the line started its stream has returned
LineReceived ==
    /\ fed.count > 0
    /\ fed.kind \in {"frame", "overlong", "bare"}
    /\ "pending" \in DOMAIN fed
    /\ fed.calls = 1
    /\ parse.pc = "idle"
    /\ last.op = "ReceiveData"

\* the reception buffer holds the payload q as a received payload
Holds(q) ==
    /\ bytes_in_reception_buffer = Len(q)
    /\ reception_buffer[0] = 0
    /\ \A k \in 1..Len(q) : reception_buffer[k] = q[k]

\* C11: noise before a frame is discarded: when the stream holds bytes none
\* of which is the start byte, followed by a complete valid frame, a single
\* ReceiveData call consumes the noise and the start byte without storing
\* them and returns true with the frame's payload, as it does without noise.
C11_NoiseDiscarded ==
    ( /\ LineReceived
      /\ fed.kind = "frame"
      /\ fed.whole )
    => /\ last.ret = TRUE
       /\ transfer_status = kPacketReceived
       /\ Holds(fed.payload)
       /\ port.rx_buffer_index = Len(fed.bytes)

\* none of the bytes available on the port is the start byte
NoStartByteAvailable ==
    \A i \in 0..(port_buffer_size - 1) :
        (i >= port.rx_buffer_index /\ i < port.rx_buffer_index
                                              + MockAvailable(port))
        => port.rx_buffer[i] # cfg.kStartByte

\* C12: missing start byte: a ReceiveData call that finds no start byte
\* among the bytes available (none at all included) consumes them, returns
\* false, stores nothing in the reception buffer and reports
\* kNoBytesToParseFromBuffer, or kPacketStartByteNotFoundError when start
\* byte errors are allowed, whatever transfer_status was before the call.
C12_MissingStartByteStep ==
    (parse.pc = "idle" /\ last'.op = "ReceiveData" /\ NoStartByteAvailable)
    => /\ parse'.pc = "idle"
       /\ last'.ret = FALSE
       /\ transfer_status' = IF cfg.kAllowStartByteErrors
                             THEN kPacketStartByteNotFoundError
                             ELSE kNoBytesToParseFromBuffer
       /\ bytes_in_reception_buffer' = 0
       /\ reception_buffer' = [reception_buffer EXCEPT ![0] = 0]
       /\ port'.rx_buffer_index = port.rx_buffer_index + MockAvailable(port)

C12_MissingStartByte == [][C12_MissingStartByteStep]_vars

\* a call found two bytes of noise and no start byte, after an earlier
\* operation had left another status
C12_OnlyNoiseConsumed ==
    /\ LineReceived
    /\ Len(fed.noise) = 2
    /\ fed.pending = SubSeq(fed.bytes, 3, Len(fed.bytes))
    /\ port.rx_buffer_index = 2
    /\ transfer_status \in {kNoBytesToParseFromBuffer,
                            kPacketStartByteNotFoundError}

\* a ReceiveData call spins in the packet loop on an empty port
PacketStalled == parse.pc = "packet" /\ MockAvailable(port) = 0

PacketTimedOut ==
    /\ parse.pc = "idle"
    /\ last.op = "ReceiveData"
    /\ last.ret = FALSE
    /\ transfer_status = kPacketTimeoutError
    /\ bytes_in_reception_buffer = 0

\* C13: packet stall: when after the start byte fewer packet bytes than the
\* reception buffer takes have arrived, none of them the delimiter, and no
\* further byte arrives until the timer has reached the timeout, ReceiveData
\* returns false with kPacketTimeoutError and bytes_in_reception_buffer 0.
C13_PacketStallTimesOut ==
    (PacketStalled /\ parse.timeout_timer >= kTimeout) ~> PacketTimedOut

\* a call that had stored a packet byte timed out in the packet loop
C13_TimedOutAfterPartialPacket ==
    /\ LineReceived
    /\ fed.kind = "frame"
    /\ Len(fed.pending) < Len(fed.payload) + 1 + kPostambleSize
    /\ PacketTimedOut

\* a ReceiveData call spins in the postamble loop on an empty port
PostambleStalled == parse.pc = "postamble" /\ MockAvailable(port) = 0

PostambleTimedOut ==
    /\ parse.pc = "idle"
    /\ last.op = "ReceiveData"
    /\ last.ret = FALSE
    /\ transfer_status = kPostambleTimeoutError
    /\ bytes_in_reception_buffer = 0

\* a call that waited in the postamble loop goes on
C14_PostambleStep ==
    (/\ parse.pc = "postamble"
     /\ port'.rx_buffer_index # port.rx_buffer_index \/ parse'.pc = "idle")
    => LET want == kPostambleSize - parse.i
           n == IF MockAvailable(port) < want THEN MockAvailable(port)
                ELSE want
       IN /\ port'.rx_buffer_index = port.rx_buffer_index + n
          /\ \A j \in 0..(n - 1) :
                reception_buffer'[parse.bytes_read + parse.i + j]
                    = port.rx_buffer[port.rx_buffer_index + j]
          /\ CASE n = want ->
                    /\ parse'.pc = "idle"
                    /\ transfer_status' # kPostambleTimeoutError
               [] n = 0 ->
                    /\ parse.timeout_timer >= kTimeout
                    /\ PostambleTimedOut'
               [] OTHER ->
                    /\ parse'.pc = "postamble"
                    /\ parse'.i = parse.i + n
                    /\ parse'.timeout_timer = 0

PacketSpace == kMaximumRxBufferSize - kPostambleSize

\* a start byte and at least PacketSpace bytes without a delimiter reached
\* a ReceiveData call, none of them after a wait of the timeout
OverlongReceived ==
    /\ LineReceived
    /\ fed.kind = "overlong"
    /\ Len(fed.bytes) - Len(fed.pending) >= 1 + PacketSpace
    /\ transfer_status # kPacketTimeoutError

C15_OutOfBufferSpace ==
    OverlongReceived
    => /\ last.ret = FALSE
       /\ transfer_status = kPacketOutOfBufferSpaceError
       /\ bytes_in_reception_buffer = 0
       /\ port.rx_buffer_index = 1 + PacketSpace
       /\ \A k \in 1..(PacketSpace - 1) :
             reception_buffer[k] = fed.bytes[k + 2]
       /\ \A k \in PacketSpace..(kMaximumRxBufferSize - 1) :
             reception_buffer[k] = 0

\* a frame with a payload of the largest size was received
LargestReceived ==
    /\ LineReceived
    /\ fed.kind = "frame"
    /\ fed.whole
    /\ Len(fed.payload) = kMaximumReceivedPayloadSize

C15_LargestAccepted ==
    LargestReceived
    => /\ last.ret = TRUE
       /\ transfer_status = kPacketReceived
       /\ Holds(fed.payload)

\* C15: buffer space: ReceiveData stores at most kMaximumReceivedPayloadSize
\* + 2 packet bytes; that many without a delimiter make it return false with
\* kPacketOutOfBufferSpaceError, the checksum slots of the reception buffer
\* never written; a frame whose delimiter is the last of that many bytes is
\* accepted.
C15_BufferSpace ==
    /\ parse.bytes_read <= PacketSpace
    /\ C15_OutOfBufferSpace
    /\ C15_LargestAccepted

\* a ReceiveData call has returned after ParsePacket parsed a packet
ParsedAndReturned ==
    /\ parse.pc = "idle"
    /\ last.op = "ReceiveData"
    /\ "packet_size" \in DOMAIN last

\* the checksum of the parsed packet and the postamble that follows it
ParsedChecksum ==
    CalculatePacketCRCChecksum(last.parsed, kMaximumRxBufferSize, 0,
                               last.packet_size + kPostambleSize, cfg.p)

\* C16: checksum gate: after a packet is parsed the CRC is computed over the
\* packet and its postamble in the reception buffer; a result other than 0
\* makes ReceiveData return false with kCRCCheckFailed and the decoder does
\* not run (the reception buffer is left as received, overhead byte
\* included); the decoder runs only when the result is 0.
C16_ChecksumGate ==
    ParsedAndReturned
    => /\ ParsedChecksum.status = kCRCChecksumCalculated
       /\ crc_status = kCRCChecksumCalculated
       /\ IF ParsedChecksum.ret # 0
          THEN /\ last.ret = FALSE
               /\ transfer_status = kCRCCheckFailed
               /\ bytes_in_reception_buffer = 0
               /\ reception_buffer = last.parsed
          ELSE LET d == DecodePayload(last.parsed, kMaximumRxBufferSize,
                                      last.packet_size, cfg.kDelimiterByte)
               IN /\ transfer_status # kCRCCheckFailed
                  /\ cobs_status = d.status
                  /\ reception_buffer = d.buf

\* a frame that fails the checksum was received, its overhead byte not 0,
\* by an engine whose checksum of an unchanged frame is 0
C16_FailedFrameKept ==
    /\ ParsedAndReturned
    /\ fed.count > 0
    /\ fed.kind = "changed"
    /\ cfg.p.final_xor_value = 0
    /\ transfer_status = kCRCCheckFailed
    /\ reception_buffer[0] # 0

\* SendData or ReceiveData has returned false
CallFailed ==
    /\ parse.pc = "idle"
    /\ last.op \in {"SendData", "ReceiveData"}
    /\ last.ret = FALSE

\* codes that report success or a stage passed
StageCodes ==
    {kPacketStartByteFound, kPacketDelimiterByteFound, kPacketParsed,
     kPacketValidated, kPacketConstructed, kPacketSent, kPacketReceived}

\* codes with which the COBS codec and the CRC engine report an error
CodecErrors ==
    {kEncoderTooSmallPayloadSize, kEncoderTooLargePayloadSize,
     kEncoderPacketLargerThanBuffer, kPayloadAlreadyEncoded,
     kDecoderTooSmallPacketSize, kDecoderTooLargePacketSize,
     kDecoderPacketLargerThanBuffer, kDecoderUnableToFindDelimiter,
     kDecoderDelimiterFoundTooEarly, kPacketAlreadyDecoded}

CrcErrors ==
    {kCalculateCRCChecksumBufferTooSmall, kAddCRCChecksumBufferTooSmall,
     kReadCRCChecksumBufferTooSmall}

\* a failed ReceiveData call whose parsed packet passed the checksum gate
DecoderFailed ==
    /\ CallFailed
    /\ ParsedAndReturned
    /\ ParsedChecksum.status = kCRCChecksumCalculated
    /\ ParsedChecksum.ret = 0

\* C17: sub-layer errors surface unchanged: when SendData or ReceiveData
\* fails because the COBS codec or the CRC engine reported an error,
\* transfer_status is that sub-layer's status code (a start byte, a delimiter
\* and a checksum that validates this one-byte packet give
\* kDecoderTooSmallPacketSize), and no failed call leaves transfer_status at a
\* code of success or of a stage passed.
C17_SubLayerErrorsSurface ==
    CallFailed
    => /\ transfer_status \notin StageCodes
       /\ last.op = "SendData"
          => /\ transfer_status \in CodecErrors \cup CrcErrors
             /\ transfer_status \in CodecErrors
                => /\ transfer_status = cobs_status
                   /\ transfer_status
                        = EncodePayload(transmission_buffer,
                                        kMaximumTxBufferSize,
                                        U8(bytes_in_transmission_buffer),
                                        cfg.kDelimiterByte).status
             /\ transfer_status \in CrcErrors
                => transfer_status = crc_status
       /\ DecoderFailed
          => /\ transfer_status \in CodecErrors
             /\ transfer_status = cobs_status
             /\ transfer_status
                  = DecodePayload(last.parsed, kMaximumRxBufferSize,
                                  last.packet_size, cfg.kDelimiterByte).status
             /\ last.packet_size = 1
                => transfer_status = kDecoderTooSmallPacketSize
       /\ (last.op = "ReceiveData" /\ ParsedAndReturned
           /\ ParsedChecksum.status # kCRCChecksumCalculated)
          => transfer_status = ParsedChecksum.status

\* the stream of a start byte, a delimiter and a validating checksum was
\* received and refused by the decoder
C17_BarePacketRefused ==
    /\ LineReceived
    /\ fed.kind = "bare"
    /\ DecoderFailed
    /\ last.packet_size = 1
    /\ transfer_status = kDecoderTooSmallPacketSize

\* the frame looped back has an overhead byte (the byte after the start
\* byte) of the value of a delimiter other than 0
OverheadIsDelimiter ==
    /\ cfg.kDelimiterByte # 0
    /\ port.rx_buffer[1] = cfg.kDelimiterByte

\* C19: overhead byte equal to the delimiter on receive: with a delimiter
\* other than 0 and a valid frame whose overhead byte has the delimiter's
\* value, ReceiveData does not end the packet at the overhead position; it
\* reads the packet up to its trailing delimiter and returns the decoded
\* payload.
C19_OverheadNotTerminator ==
    (LoopbackReceived /\ OverheadIsDelimiter)
    => /\ last.ret = TRUE
       /\ transfer_status = kPacketReceived
       /\ Holds(fed.payload)

\* the frame on the line holds the start byte's value after its start byte,
\* or the start byte is the delimiter
StartValueInFrame ==
    \/ cfg.kStartByte = cfg.kDelimiterByte
    \/ \E k \in (Len(fed.noise) + 2)..Len(fed.bytes) :
          fed.bytes[k] = cfg.kStartByte

\* C20: start byte value inside a frame: after the first start byte of the
\* stream later bytes of its value (overhead, encoded payload, checksum) are
\* stored as packet bytes and do not restart the scan; a valid frame whose
\* payload holds the start byte's value, or whose start byte is the
\* delimiter, is received with the original payload.
C20_StartValueInFrame ==
    (LineReceived /\ fed.kind = "frame" /\ fed.whole /\ StartValueInFrame)
    => /\ last.ret = TRUE
       /\ transfer_status = kPacketReceived
       /\ Holds(fed.payload)
       /\ port.rx_buffer_index = Len(fed.bytes)

\* C21: delimiter elimination: after a successful EncodePayload of a payload
\* of P bytes with the delimiter D, buf[P + 1] is D and no byte at the
\* indices 1..P is D; only the overhead byte buf[0] may be D.
C21_DelimiterEliminated ==
    Encoded(codec.last)
    => /\ codec.buf[codec.last.size + 1] = codec.delimiter
       /\ \A k \in 1..codec.last.size : codec.buf[k] # codec.delimiter

\* C22: ReceiveData always returns: with the timer advancing, every
\* ReceiveData call comes to return, true or with an error status, however
\* the bytes arrive on the line: all at once, one after the other, not at
\* all, or without end and with no start byte or delimiter among them; the
\* call stays in none of its three loops for ever.
C22_ReceiveDataReturns == (parse.pc # "idle") ~> (parse.pc = "idle")


\* C23: transmission tracker.  A successful WriteData leaves
\* bytes_in_transmission_buffer at the larger of its previous value and
\* start_index + provided_bytes (so over the calls since the last reset it
\* is their maximum, whatever the order, and never decreases); a failed
\* WriteData leaves it alone; ResetTransmissionBuffer and a successful
\* SendData set it to 0; and SendData called with a non-empty tracker
\* transmits exactly that many payload bytes, the positions not written
\* since the reset included.
C23_TrackerStep ==
    /\ last'.op = "WriteData" =>
          IF transfer_status' = kBytesWrittenToBuffer
          THEN bytes_in_transmission_buffer' =
                  Max(bytes_in_transmission_buffer,
                      last'.start_index + last'.provided_bytes)
          ELSE bytes_in_transmission_buffer' = bytes_in_transmission_buffer
    /\ last'.op = "ResetTransmissionBuffer" =>
          bytes_in_transmission_buffer' = 0
    /\ (last'.op = "SendData" /\ bytes_in_transmission_buffer >= 1) =>
          /\ last'.ret = TRUE
          /\ bytes_in_transmission_buffer' = 0
          /\ Len(last'.payload) = bytes_in_transmission_buffer
          /\ \A k \in 1..bytes_in_transmission_buffer :
                last'.payload[k] = transmission_buffer[k]
          /\ Len(last'.frame)
                = 2 + bytes_in_transmission_buffer + 2 + kPostambleSize

C23_TransmissionTracker == [][C23_TrackerStep]_vars


\* the step is the call of ReceiveData
ReceiveCalled == parse.pc = "idle" /\ last'.op = "ReceiveData"

\* the step is one of a ReceiveData call and the call returns in it
ReceiveReturns ==
    /\ ReceiveCalled \/ parse.pc # "idle"
    /\ parse'.pc = "idle"

\* the first delimiter of the buffer is at index n - 1
FirstDelimiterEnds(buffer, n) ==
    /\ n >= 1
    /\ buffer[n - 1] = cfg.kDelimiterByte
    /\ \A k \in 0..(n - 2) : buffer[k] # cfg.kDelimiterByte

\* C24: receive stage ordering.  A ReceiveData call first resets the
\* reception tracker and the overhead byte; it stores packet bytes only with
\* the start byte found, and only up to the first delimiter; it stores
\* postamble bytes only after that delimiter, without going back to the
\* packet; it returns true only for a parsed packet whose checksum over
\* packet and postamble is 0 and that the decoder accepted, with
\* bytes_in_reception_buffer set to the decoded payload size; and
\* transfer_status is kPacketReceived exactly when it returns true.
C24_StageStep ==
    /\ ReceiveCalled =>
          /\ parse'.pc # "idle" => bytes_in_reception_buffer' = 0
          /\ (parse'.pc = "packet" /\ parse'.bytes_read = 0) =>
                reception_buffer' = [reception_buffer EXCEPT ![0] = 0]
    /\ parse'.pc = "packet" =>
          /\ parse.pc \in {"idle", "packet"}
          /\ transfer_status' = kPacketStartByteFound
          /\ parse'.bytes_read >= parse.bytes_read
          /\ \A k \in 0..(parse'.bytes_read - 1) :
                reception_buffer'[k] # cfg.kDelimiterByte
    /\ parse'.pc = "postamble" =>
          /\ transfer_status' = kPacketDelimiterByteFound
          /\ FirstDelimiterEnds(reception_buffer', parse'.bytes_read)
          /\ parse'.i < kPostambleSize
          /\ parse.pc = "postamble" =>
                /\ parse'.bytes_read = parse.bytes_read
                /\ parse'.i >= parse.i
                /\ \A k \in 0..(parse.bytes_read + parse.i - 1) :
                      reception_buffer'[k] = reception_buffer[k]
    /\ parse.pc # "idle" => bytes_in_reception_buffer = 0
    /\ ReceiveReturns =>
          /\ (last'.ret = TRUE) <=> (transfer_status' = kPacketReceived)
          /\ last'.ret = FALSE => bytes_in_reception_buffer' = 0
          /\ last'.ret = TRUE =>
                /\ "packet_size" \in DOMAIN last'
                /\ FirstDelimiterEnds(last'.parsed, last'.packet_size)
                /\ CalculatePacketCRCChecksum(
                       last'.parsed, kMaximumRxBufferSize, 0,
                       last'.packet_size + kPostambleSize, cfg.p).ret = 0
                /\ LET d == DecodePayload(last'.parsed, kMaximumRxBufferSize,
                                          last'.packet_size,
                                          cfg.kDelimiterByte)
                   IN /\ d.ret = last'.packet_size - 2
                      /\ d.ret >= 1
                      /\ d.status = kPayloadDecoded
                      /\ reception_buffer' = d.buf
                      /\ bytes_in_reception_buffer' = d.ret

C24_StageOrder == [][C24_StageStep]_vars

\* a frame that arrived byte after byte was received: the call waited in
\* the packet loop and in the postamble loop before it returned true
C24_ReceivedInStages ==
    /\ LineReceived
    /\ fed.kind = "frame"
    /\ ~fed.whole
    /\ fed.pending = <<>>
    /\ Len(fed.payload) = 2
    /\ last.ret = TRUE
    /\ transfer_status = kPacketReceived
    /\ bytes_in_reception_buffer = 2


\* the call read at least one byte into the reception buffer in this step
\* and waits in the packet loop for the next one
ReadAndWaits ==
    /\ parse'.pc = "packet"
    /\ ReceiveCalled \/ parse'.bytes_read > parse.bytes_read

\* the first call on a line that carries a valid frame found the start byte
\* and returned false
FrameRefused ==
    /\ LineReceived
    /\ fed.kind = "frame"
    /\ last.ret = FALSE
    /\ transfer_status \notin {kNoBytesToParseFromBuffer,
                               kPacketStartByteNotFoundError}

\* C25: per-byte timeout.  The timer starts again at 0 with every byte the
\* packet loop reads, so it measures the gap since the last byte;
\* kPacketTimeoutError is reported only by a call whose timer has reached
\* the timeout while it waited in the packet loop (kPostambleTimeoutError
\* likewise in the postamble loop); and a valid frame is refused only with
\* one of these two codes, that is, a valid frame none of whose gaps reaches
\* the timeout is received, however long the whole frame takes.
C25_TimerStep ==
    /\ ReadAndWaits => parse'.timeout_timer = 0
    /\ parse'.timeout_timer <= parse.timeout_timer + 1
    /\ (ReceiveReturns /\ transfer_status' = kPacketTimeoutError) =>
          /\ parse.pc = "packet"
          /\ parse.timeout_timer >= kTimeout
    /\ (ReceiveReturns /\ transfer_status' = kPostambleTimeoutError) =>
          /\ parse.pc = "postamble"
          /\ parse.timeout_timer >= kTimeout

C25_PerByteTimeout ==
    /\ [][C25_TimerStep]_vars
    /\ [](FrameRefused => transfer_status \in {kPacketTimeoutError,
                                              kPostambleTimeoutError})


\* the first index after k, up to P, at which buffer holds 0; P + 1 if none
NextZero(buffer, k, P) ==
    IF \E j \in (k + 1)..P : buffer[j] = 0
    THEN CHOOSE j \in (k + 1)..P :
             /\ buffer[j] = 0
             /\ \A m \in (k + 1)..(j - 1) : buffer[m] # 0
    ELSE P + 1

\* what COBS with delimiter 0 makes of the payload buffer[1..P]
ReferenceEncoding(buffer, P) ==
    [k \in 0..(P + 1) |->
        IF k = 0 THEN NextZero(buffer, 0, P)
        ELSE IF k = P + 1 THEN 0
        ELSE IF buffer[k] = 0 THEN NextZero(buffer, k, P) - k
        ELSE buffer[k]]

\* the payload and the packet of the encoder test
TestPayloadBuffer ==
    [k \in 0..11 |-> <<0, 10, 0, 0, 20, 0, 0, 0, 143, 12, 54, 22>>[k + 1]]

TestPacket ==
    [k \in 0..11 |-> <<2, 10, 1, 2, 20, 1, 1, 4, 143, 12, 54, 0>>[k + 1]]

\* C26: encoder against the COBS reference for delimiter 0: after a
\* successful EncodePayload of P bytes, buf[0] is the index of the first
\* payload byte that was 0 (P + 1 if none), every payload position that held
\* 0 holds the distance to the next position that held 0 (to P + 1 if
\* none), every other payload byte is unchanged and buf[P + 1] is 0; the
\* payload [10,0,0,20,0,0,0,143,12,54] becomes
\* [2,10,1,2,20,1,1,4,143,12,54,0].
C26_EncoderMatchesReference ==
    /\ (Encoded(codec.last) /\ codec.delimiter = 0)
       => \A k \in 0..(codec.last.size + 1) :
             codec.buf[k] = ReferenceEncoding(codec.last.pre,
                                              codec.last.size)[k]
    /\ ReferenceEncoding(TestPayloadBuffer, 10) = TestPacket
    /\ EncodePayload(TestPayloadBuffer, 12, 10, 0)
          = [buf |-> TestPacket, ret |-> 12, status |-> kPayloadEncoded]

\* a payload with two zero bytes and another byte between them was encoded
\* with delimiter 0
C26_EncodedZeros ==
    /\ Encoded(codec.last)
    /\ codec.delimiter = 0
    /\ codec.last.size = 3
    /\ codec.last.pre[1] = 0
    /\ codec.last.pre[2] # 0
    /\ codec.last.pre[3] = 0
    /\ codec.buf[0] = 1
    /\ codec.buf[1] = 2


\* the chain of distances that starts at index r of the buffer runs past
\* the packet of L bytes before it comes to a delimiter
RECURSIVE ChainLeaves(_, _, _, _)
ChainLeaves(buffer, r, L, delimiter) ==
    IF r >= L THEN TRUE
    ELSE IF buffer[r] = delimiter \/ buffer[r] = 0 THEN FALSE
    ELSE ChainLeaves(buffer, r + buffer[r], L, delimiter)

\* the buffers that hold what buffer holds at the indices below L
SameInside(buffer, L) ==
    {[k \in DOMAIN buffer |-> IF k < L THEN buffer[k] ELSE outside[k]] :
        outside \in [{k \in DOMAIN buffer : k >= L} -> PayloadBytes]}

\* the packet of the decoder test: 15 bytes of 22 with 0 at 5 and 10,
\* encoded with delimiter 0, in an array of 18 bytes
TestLongPacket ==
    [k \in 0..17 |-> CASE k = 0 -> 5 [] k = 5 -> 5 [] k = 10 -> 6
                       [] k = 16 -> 0 [] OTHER -> 22]

\* the call was a DecodePayload with 3 <= packet_size <= 256 that fits the
\* buffer, on a buffer whose overhead byte is not 0
DecodeRan ==
    /\ codec.last.op = "DecodePayload"
    /\ codec.last.size \in kMinPacketSize..kMaxPacketSize
    /\ codec.last.size <= CobsBufferSize
    /\ codec.last.pre[0] # 0

\* C27: the decoder stays inside the declared packet: a DecodePayload call
\* with packet_size L changes no byte at an index >= L, its outcome does not
\* depend on any such byte, and when the chain of distances runs to an index
\* >= L before it comes to a delimiter the call returns 0 with
\* kDecoderUnableToFindDelimiter; so for L = 13 on the 17-byte test packet
\* with the chain 0 -> 5 -> 10 -> 16.
C27_DecoderStaysInside ==
    /\ DecodeRan =>
          LET L == codec.last.size
              pre == codec.last.pre
          IN /\ \A k \in DOMAIN pre : k >= L => codec.buf[k] = pre[k]
             /\ \A other \in SameInside(pre, L) :
                   LET d == DecodePayload(other, CobsBufferSize, L,
                                          codec.delimiter)
                   IN /\ d.ret = codec.last.ret
                      /\ d.status = codec.last.status
                      /\ \A k \in 0..(L - 1) : d.buf[k] = codec.buf[k]
                      /\ \A k \in DOMAIN pre : k >= L => d.buf[k] = other[k]
             /\ ChainLeaves(pre, pre[0], L, codec.delimiter)
                   => /\ codec.last.ret = 0
                      /\ codec.last.status = kDecoderUnableToFindDelimiter
    /\ LET d == DecodePayload(TestLongPacket, 18, 13, 0)
       IN /\ d.ret = 0
          /\ d.status = kDecoderUnableToFindDelimiter
          /\ \A k \in 13..17 : d.buf[k] = TestLongPacket[k]

\* a packet of 3 bytes was declared in a longer buffer and the chain ran to
\* index 4, where the buffer holds the delimiter
C27_ChainLeftPacket ==
    /\ DecodeRan
    /\ codec.last.size = 3
    /\ codec.last.pre[0] = 2
    /\ codec.last.pre[2] = 2
    /\ codec.last.pre[4] = codec.delimiter
    /\ codec.last.status = kDecoderUnableToFindDelimiter
    /\ codec.buf[4] = codec.delimiter


\* the index at which the chain of distances that starts at index r of the
\* buffer comes to a delimiter inside the packet of L bytes; -1 when it
\* runs past the packet or stops on a distance of 0
RECURSIVE ChainEnd(_, _, _, _)
ChainEnd(buffer, r, L, delimiter) ==
    IF r >= L THEN -1
    ELSE IF buffer[r] = delimiter THEN r
    ELSE IF buffer[r] = 0 THEN -1
    ELSE ChainEnd(buffer, r + buffer[r], L, delimiter)

\* C28: early delimiter detection: when the chain of distances of a packet
\* of L bytes comes to a delimiter at an index below L - 1, DecodePayload
\* returns 0 with kDecoderDelimiterFoundTooEarly; it returns L - 2 with
\* kPayloadDecoded only when the chain comes to a delimiter at index L - 1.
C28_EarlyDelimiter ==
    DecodeRan =>
       LET L == codec.last.size
           end == ChainEnd(codec.last.pre, codec.last.pre[0], L,
                           codec.delimiter)
       IN /\ (end >= 0 /\ end < L - 1)
             => /\ codec.last.ret = 0
                /\ codec.last.status = kDecoderDelimiterFoundTooEarly
          /\ (codec.last.status = kPayloadDecoded \/ codec.last.ret # 0)
             => /\ codec.last.ret = L - 2
                /\ codec.last.status = kPayloadDecoded
                /\ end = L - 1


\* the status of the first check of EncodePayload that the call fails, 0
\* when it passes all four
EncodeRefusal(buffer, payload_size) ==
    CASE payload_size < 1 -> kEncoderTooSmallPayloadSize
      [] payload_size >= 1 /\ payload_size > 254 ->
            kEncoderTooLargePayloadSize
      [] payload_size \in 1..254 /\ CobsBufferSize < payload_size + 2 ->
            kEncoderPacketLargerThanBuffer
      [] payload_size \in 1..254 /\ CobsBufferSize >= payload_size + 2
            /\ buffer[0] # 0 -> kPayloadAlreadyEncoded
      [] OTHER -> 0

\* the same for DecodePayload
DecodeRefusal(buffer, packet_size) ==
    CASE packet_size < 3 -> kDecoderTooSmallPacketSize
      [] packet_size >= 3 /\ packet_size > 256 -> kDecoderTooLargePacketSize
      [] packet_size \in 3..256 /\ CobsBufferSize < packet_size ->
            kDecoderPacketLargerThanBuffer
      [] packet_size \in 3..256 /\ CobsBufferSize >= packet_size
            /\ buffer[0] = 0 -> kPacketAlreadyDecoded
      [] OTHER -> 0

\* the packet that delimiter 0 makes of 254 bytes, none of them 0, in an
\* array of 256 bytes
LargestPacket ==
    [k \in 0..255 |-> IF k = 0 THEN 255 ELSE IF k = 255 THEN 0 ELSE 1]

\* a payload size of 254 passes the size checks of EncodePayload and comes
\* to the check of the overhead placeholder, 255 does not
LargestPayloadPasses ==
    /\ EncodePayload(LargestPacket, 256, 254, 0).status
          = kPayloadAlreadyEncoded
    /\ EncodePayload(LargestPacket, 256, 255, 0).status
          = kEncoderTooLargePayloadSize

\* a packet size of 256 is decoded, 257 is not
LargestPacketDecoded ==
    /\ LET d == DecodePayload(LargestPacket, 256, 256, 0)
       IN d.ret = 254 /\ d.status = kPayloadDecoded
    /\ DecodePayload(LargestPacket, 256, 257, 0).status
          = kDecoderTooLargePacketSize

\* C29: COBS precondition errors and their precedence.  EncodePayload
\* checks, in this order, payload_size < 1, payload_size > 254, buffer
\* shorter than payload_size + 2, buf[0] # 0; DecodePayload checks
\* packet_size < 3, packet_size > 256, buffer shorter than packet_size,
\* buf[0] = 0.  The first check that fails gives the status, the call
\* returns 0 and the buffer is unchanged; a call that fails none is not
\* refused, the sizes 1 and 254, 3 and 256 included.
C29_PreconditionOrder ==
    /\ codec.last.op = "EncodePayload" =>
          LET refusal == EncodeRefusal(codec.last.pre, codec.last.size)
          IN IF refusal # 0
             THEN /\ codec.last.status = refusal
                  /\ codec.cobs_status = refusal
                  /\ codec.last.ret = 0
                  /\ codec.buf = codec.last.pre
             ELSE /\ codec.last.status = kPayloadEncoded
                  /\ codec.last.ret = codec.last.size + 2
    /\ codec.last.op = "DecodePayload" =>
          LET refusal == DecodeRefusal(codec.last.pre, codec.last.size)
          IN IF refusal # 0
             THEN /\ codec.last.status = refusal
                  /\ codec.cobs_status = refusal
                  /\ codec.last.ret = 0
                  /\ codec.buf = codec.last.pre
             ELSE codec.last.status \in {kPayloadDecoded,
                                         kDecoderDelimiterFoundTooEarly,
                                         kDecoderUnableToFindDelimiter}
    /\ LargestPayloadPasses
    /\ LargestPacketDecoded

\* an encoding failed two checks at once, size and overhead placeholder,
\* after a decoding that failed the size check on a decoded buffer
C29_TwoChecksFailed ==
    /\ codec.last.op = "EncodePayload"
    /\ codec.last.size = CobsBufferSize - 1
    /\ codec.last.pre[0] # 0
    /\ codec.last.status = kEncoderPacketLargerThanBuffer
    /\ codec.prev.op = "DecodePayload"
    /\ codec.prev.size = 256
    /\ codec.prev.status = kDecoderPacketLargerThanBuffer


\* a successful EncodePayload was followed by a successful DecodePayload of
\* the packet it returned
EncodedThenDecoded ==
    /\ Encoded(codec.prev)
    /\ codec.last.op = "DecodePayload"
    /\ codec.last.size = codec.prev.ret
    /\ codec.last.status = kPayloadDecoded

\* C30: frame effect of the codec pair: a successful EncodePayload of P
\* bytes followed by a successful DecodePayload of P + 2 bytes changes no
\* byte at an index above P + 1, neither call changes a payload byte whose
\* value before the encoding differs from the delimiter, and after the pair
\* the buffer differs from what it held before the encoding at most at
\* index P + 1, which holds the delimiter.
C30_PairFrame ==
    EncodedThenDecoded =>
       LET P == codec.prev.size
           initial == codec.prev.pre
           encoded == codec.last.pre
       IN /\ codec.last.ret = P
          /\ \A k \in DOMAIN initial :
                k > P + 1 => /\ encoded[k] = initial[k]
                             /\ codec.buf[k] = initial[k]
          /\ \A k \in 1..P :
                initial[k] # codec.delimiter
                   => /\ encoded[k] = initial[k]
                      /\ codec.buf[k] = initial[k]
          /\ \A k \in DOMAIN initial :
                k # P + 1 => codec.buf[k] = initial[k]
          /\ codec.buf[P + 1] = codec.delimiter

\* a payload that holds the delimiter 1 and a 0 was encoded and decoded in
\* a buffer with a byte behind the packet, the delimiter written over a
\* different byte
C30_PairDone ==
    /\ EncodedThenDecoded
    /\ codec.delimiter = 1
    /\ codec.prev.size = 2
    /\ codec.prev.pre[1] = 1
    /\ codec.prev.pre[2] = 0
    /\ codec.prev.pre[3] = 2
    /\ codec.prev.pre[4] = 2
    /\ codec.last.pre[1] = 2
    /\ codec.buf[1] = 1


\* the CRC register after bits j .. 7 of the byte went through it, most
\* significant bit first
RECURSIVE BitsOfByte(_, _, _, _, _)
BitsOfByte(byte, j, register, bits, polynomial) ==
    IF j = 8 THEN register
    ELSE IF register \div Pow2(bits - 1) # (byte \div Pow2(7 - j)) % 2
    THEN BitsOfByte(byte, j + 1,
                    XOR((register * 2) % Pow2(bits), polynomial),
                    bits, polynomial)
    ELSE BitsOfByte(byte, j + 1, (register * 2) % Pow2(bits),
                    bits, polynomial)

\* the CRC register after the bits of buffer[i .. end - 1] went through it
\* one at a time
RECURSIVE BitSerial(_, _, _, _, _, _)
BitSerial(buffer, i, end, register, bits, polynomial) ==
    IF i >= end THEN register
    ELSE BitSerial(buffer, i + 1, end,
                   BitsOfByte(buffer[i], 0, register, bits, polynomial),
                   bits, polynomial)

\* the MSB-first bitwise CRC of buffer[start .. start + size - 1]
BitwiseCRC(buffer, start, size, p) ==
    XOR(BitSerial(buffer, start, start + size, p.initial_value, 8 * p.W,
                  p.polynomial),
        p.final_xor_value)

\* the buffer of the checksum test
TestChecksumBuffer == [k \in 0..5 |-> <<1, 2, 3, 4, 5, 21>>[k + 1]]

\* every table entry is the bitwise remainder of its byte
TableIsBitwise ==
    \A wp \in DOMAIN crc_table : \A byte \in 0..255 :
        crc_table[wp][byte] = BitsOfByte(byte, 0, 0, 8 * wp[1], wp[2])

\* the values of the tests
TableAndChecksumOfTests ==
    /\ crc_table[<<1, 7>>][0] = 0
    /\ crc_table[<<1, 7>>][1] = 7
    /\ crc_table[<<1, 7>>][2] = 14
    /\ crc_table[<<1, 7>>][255] = 243
    /\ CalculatePacketCRCChecksum(TestChecksumBuffer, 6, 0, 6, CRC16)
          = [ret |-> 62798, status |-> kCRCChecksumCalculated]

\* C31: the table-driven CRC equals the bitwise CRC: crc_table[B] is the
\* remainder of the byte B taken through 8 shift steps of the register with
\* the polynomial, and CalculatePacketCRCChecksum over a byte range is the
\* MSB-first bitwise CRC of the range with the initial value and the final
\* XOR value of the processor; table[1] = 0x07, table[2] = 0x0E and
\* table[255] = 0xF3 for CRC-8 0x07, and 0xF54E is the CRC-16/CCITT-FALSE
\* checksum of 01 02 03 04 05 15.
C31_TableEqualsBitwise ==
    /\ ( /\ crcp.last.op = "CalculatePacketCRCChecksum"
         /\ crcp.last.status = kCRCChecksumCalculated )
       => crcp.last.ret = BitwiseCRC(crcp.last.pre, crcp.last.start_index,
                                     crcp.last.size, crcp.p)
    /\ TableIsBitwise
    /\ TableAndChecksumOfTests

\* a 16-bit checksum with a final XOR value was calculated over three
\* different bytes that do not start at index 0
C31_ChecksumCalculated ==
    /\ crcp.last.op = "CalculatePacketCRCChecksum"
    /\ crcp.last.status = kCRCChecksumCalculated
    /\ crcp.p = CRC16X
    /\ crcp.last.start_index = 1
    /\ crcp.last.size = 3
    /\ crcp.last.pre[1] = 255
    /\ crcp.last.pre[2] = 1
    /\ crcp.last.pre[3] = 0
    /\ crcp.last.ret # 0


\* CRC values of width W: the smallest, the largest and values whose bytes
\* differ
ChecksumValues(W) ==
    {c \in {0, 1, 255, 256, 4660, 43981, 65280, 65535} : c < Pow2(8 * W)}

\* byte i, counted from the most significant one, of the W-byte value c
ByteOf(c, i, W) == (c \div Pow2(8 * (W - 1 - i))) % 256

\* AddCRCChecksumToBuffer of c at start on the buffer, then
\* ReadCRCChecksumFromBuffer at start
AddedThenRead(buffer, start, c, p) ==
    LET a == AddCRCChecksumToBuffer(buffer, CrcBufferSize, start, c, p)
        r == ReadCRCChecksumFromBuffer(a.buf, CrcBufferSize, start, p)
    IN /\ a.status = kCRCChecksumAddedToBuffer
       /\ a.ret = start + p.W
       /\ \A k \in DOMAIN buffer :
             a.buf[k] = IF k >= start /\ k < start + p.W
                        THEN ByteOf(c, k - start, p.W)
                        ELSE buffer[k]
       /\ r = [ret |-> c, status |-> kCRCChecksumReadFromBuffer]

\* C32: CRC byte order round trip: for a CRC value c of width W and a start
\* index with at least W bytes of buffer left, AddCRCChecksumToBuffer
\* writes the W bytes of c at start .. start + W - 1, most significant byte
\* first, changes no other byte and returns start + W, and
\* ReadCRCChecksumFromBuffer at the same start index then returns c.
C32_ByteOrderRoundTrip ==
    /\ \A c \in ChecksumValues(crcp.p.W) :
          \A start \in 0..(CrcBufferSize - crcp.p.W) :
             AddedThenRead(crcp.buf, start, c, crcp.p)
    /\ ( /\ crcp.last.op = "AddCRCChecksumToBuffer"
         /\ crcp.last.start_index + crcp.p.W <= CrcBufferSize )
       => /\ crcp.last.status = kCRCChecksumAddedToBuffer
          /\ crcp.last.ret = crcp.last.start_index + crcp.p.W
          /\ \A k \in DOMAIN crcp.buf :
                crcp.buf[k] =
                   IF /\ k >= crcp.last.start_index
                      /\ k < crcp.last.start_index + crcp.p.W
                   THEN ByteOf(crcp.last.arg, k - crcp.last.start_index,
                               crcp.p.W)
                   ELSE crcp.last.pre[k]
          /\ ReadCRCChecksumFromBuffer(crcp.buf, CrcBufferSize,
                                       crcp.last.start_index, crcp.p)
                = [ret |-> crcp.last.arg,
                   status |-> kCRCChecksumReadFromBuffer]

\* a 16-bit checksum whose two bytes differ was added at the last index
\* that leaves room for it
C32_ChecksumAdded ==
    /\ crcp.last.op = "AddCRCChecksumToBuffer"
    /\ crcp.last.status = kCRCChecksumAddedToBuffer
    /\ crcp.p.W = 2
    /\ crcp.last.start_index = CrcBufferSize - 2
    /\ crcp.last.arg \div 256 # crcp.last.arg % 256
    /\ crcp.buf[CrcBufferSize - 2] = crcp.last.arg \div 256
    /\ crcp.buf[CrcBufferSize - 2] # crcp.last.pre[CrcBufferSize - 2]


\* C33: CRC bounds errors: CalculatePacketCRCChecksum returns 0 with
\* kCalculateCRCChecksumBufferTooSmall whenever start_index + packet_size
\* exceeds the buffer length; AddCRCChecksumToBuffer and
\* ReadCRCChecksumFromBuffer return 0 with kAddCRCChecksumBufferTooSmall,
\* respectively kReadCRCChecksumBufferTooSmall, whenever fewer than W bytes
\* remain from start_index, a start index beyond the end of the buffer
\* included; in each of these cases the buffer is not changed (and, the
\* call ending at the check, nothing is read).
C33_BoundsErrors ==
    /\ ( /\ crcp.last.op = "CalculatePacketCRCChecksum"
         /\ crcp.last.start_index + crcp.last.size > CrcBufferSize )
       => /\ crcp.last.ret = 0
          /\ crcp.last.status = kCalculateCRCChecksumBufferTooSmall
          /\ crcp.crc_status = kCalculateCRCChecksumBufferTooSmall
          /\ crcp.buf = crcp.last.pre
    /\ ( /\ crcp.last.op = "AddCRCChecksumToBuffer"
         /\ crcp.last.start_index + crcp.p.W > CrcBufferSize )
       => /\ crcp.last.ret = 0
          /\ crcp.last.status = kAddCRCChecksumBufferTooSmall
          /\ crcp.crc_status = kAddCRCChecksumBufferTooSmall
          /\ crcp.buf = crcp.last.pre
    /\ ( /\ crcp.last.op = "ReadCRCChecksumFromBuffer"
         /\ crcp.last.start_index + crcp.p.W > CrcBufferSize )
       => /\ crcp.last.ret = 0
          /\ crcp.last.status = kReadCRCChecksumBufferTooSmall
          /\ crcp.crc_status = kReadCRCChecksumBufferTooSmall
          /\ crcp.buf = crcp.last.pre


\* C34: SendData cannot fail: in every state of the engine reachable
\* through its public operations a SendData call returns true.
C34_SendDataReturnsTrue ==
    last.op = "SendData" => last.ret = TRUE


\* C35: empty send: when bytes_in_transmission_buffer is 0 (initially,
\* after a successful SendData or after ResetTransmissionBuffer) SendData
\* returns false with transfer_status = kEncoderTooSmallPayloadSize, writes
\* no byte to the stream and leaves the transmission buffer and the tracker
\* unchanged; with in-range WriteData arguments this is the only way
\* SendData can fail: every other call returns true.
C35_EmptySendStep ==
    last'.op = "SendData" =>
        IF bytes_in_transmission_buffer = 0
        THEN /\ last'.ret = FALSE
             /\ transfer_status' = kEncoderTooSmallPayloadSize
             /\ port' = port
             /\ UNCHANGED txVars
        ELSE /\ last'.ret = TRUE
             /\ transfer_status' = kPacketSent

C36_PairStep ==
    (last'.op = "ReceiveData" /\ fed.kind = "pair" /\ fed.calls < 2) =>
        LET k == fed.calls + 1
            q == fed.payloads[k]
            consumed == IF k = 1 THEN Len(Frame(cfg, fed.payloads[1]))
                        ELSE Len(fed.bytes)
        IN /\ parse'.pc = "idle"
           /\ last'.ret = TRUE
           /\ transfer_status' = kPacketReceived
           /\ bytes_in_reception_buffer' = Len(q)
           /\ \A j \in 1..Len(q) : reception_buffer'[j] = q[j]
           /\ port'.rx_buffer_index = consumed

C36_BackToBackFrames == [][C36_PairStep]_vars

\* the second of two frames with different payloads was delivered
C36_SecondDelivered ==
    /\ fed.kind = "pair"
    /\ fed.calls = 2
    /\ last.op = "ReceiveData" /\ last.ret = TRUE
    /\ fed.payloads[1] # fed.payloads[2]
    /\ \A j \in 1..Len(fed.payloads[2]) :
          reception_buffer[j] = fed.payloads[2][j]
    /\ port.rx_buffer_index = Len(fed.bytes)


\* what a ReceiveData call returns and leaves when an engine in the state
\* the constructor left is called on the port p and no further byte arrives:
\* the return value, transfer_status, bytes_in_reception_buffer, the
\* readable payload and the port's read index
FreshReceive(p) ==
    LET scan == ScanLoop(p)
        s == [port |-> scan.port,
              buf |-> [k \in 0..(kMaximumRxBufferSize - 1) |-> 0],
              pc |-> "packet", bytes_read |-> 0, timeout_timer |-> 0,
              i |-> 0, status |-> kPacketStartByteFound]
        a == PacketLoop(s)
        b == IF a.pc = "postamble" THEN PostambleLoop(a) ELSE a
        v == ValidatePacket(b.buf, b.bytes_read)
        Failed(status, q) ==
            [ret |-> FALSE, transfer_status |-> status, bytes |-> 0,
             payload |-> <<>>, index |-> q.rx_buffer_index]
    IN IF ~scan.found
       THEN Failed(IF cfg.kAllowStartByteErrors
                   THEN kPacketStartByteNotFoundError
                   ELSE kNoBytesToParseFromBuffer, scan.port)
       ELSE IF a.pc \in {"packet", "end"}
       THEN Failed(EndStatus(a.bytes_read), a.port)
       ELSE IF b.pc \in {"postamble", "fail"}
       THEN Failed(kPostambleTimeoutError, b.port)
       ELSE IF v.ret = 0
       THEN Failed(v.transfer_status, b.port)
       ELSE [ret |-> TRUE, transfer_status |-> kPacketReceived,
             bytes |-> v.ret, payload |-> [k \in 1..v.ret |-> v.buf[k]],
             index |-> b.port.rx_buffer_index]

\* the first ReceiveData call on the stream loaded last has returned
FirstCallReturned ==
    /\ last.op = "ReceiveData"
    /\ parse.pc = "idle"
    /\ fed.count >= 1
    /\ fed.calls = 1

\* C37: ReceiveData is independent of the prior engine state: whatever an
\* engine of a given configuration did before (received, failed to receive
\* with any status, reset, tried to send; whatever is left in its reception
\* buffer), a ReceiveData call on the same stream contents with the same
\* arrival timing gives the same return value, the same transfer_status, the
\* same bytes_in_reception_buffer, the same readable payload and consumes
\* the same number of stream bytes as the call of an engine fresh from its
\* constructor.
C37_ReceiveIgnoresPriorState ==
    FirstCallReturned =>
        LET fresh == FreshReceive(Loaded(fed.bytes))
        IN /\ last.ret = fresh.ret
           /\ transfer_status = fresh.transfer_status
           /\ bytes_in_reception_buffer = fresh.bytes
           /\ [k \in 1..bytes_in_reception_buffer |-> reception_buffer[k]]
                 = fresh.payload
           /\ port.rx_buffer_index = fresh.index

\* the call on an empty port of an engine that still holds bytes of a frame
\* received earlier has returned
C37_ReceivedAfterOtherStream ==
    /\ FirstCallReturned
    /\ fed.count = 2
    /\ fed.kind = "empty"
    /\ last.ret = FALSE
    /\ reception_buffer[1] # 0
    /\ crc_status # kCRCStandby


\* C38: tracker and layout invariant: in every state reachable by any
\* sequence of public operations with arbitrary 16-bit arguments, observed
\* between operations, bytes_in_transmission_buffer is at most the maximum
\* transmitted payload size, bytes_in_reception_buffer is at most the
\* maximum received payload size, and the overhead placeholder
\* transmission_buffer[0] is 0.
C38_TrackersAndLayout ==
    parse.pc = "idle" =>
        /\ bytes_in_transmission_buffer <= kMaximumTransmittedPayloadSize
        /\ bytes_in_reception_buffer <= kMaximumReceivedPayloadSize
        /\ transmission_buffer[0] = 0


\* the loop of DecodePayload followed pass by pass: the number of passes
\* through its body, counted up to packet_size + 1, and the status the call
\* ends with (kCOBSStandby when the count was given up)
RECURSIVE DecodePasses(_, _, _, _, _, _)
DecodePasses(buffer, read_index, next_index, packet_size, delimiter, passes) ==
    IF passes > packet_size
    THEN [passes |-> passes, status |-> kCOBSStandby]
    ELSE IF read_index + next_index < packet_size
    THEN LET r == read_index + next_index
         IN IF buffer[r] = delimiter
            THEN [passes |-> passes + 1,
                  status |-> IF r = packet_size - 1 THEN kPayloadDecoded
                             ELSE kDecoderDelimiterFoundTooEarly]
            ELSE DecodePasses([buffer EXCEPT ![r] = delimiter], r, buffer[r],
                              packet_size, delimiter, passes + 1)
    ELSE [passes |-> passes, status |-> kDecoderUnableToFindDelimiter]

\* the passes of the call recorded last
LastDecodePasses ==
    DecodePasses([codec.last.pre EXCEPT ![0] = 0], 0, codec.last.pre[0],
                 codec.last.size, codec.delimiter, 0)

\* C39: decoder termination: for every buffer content (encoded distance
\* bytes equal to 0 included), every packet size from 3 on that the buffer
\* holds and every delimiter value, the distance-following loop of
\* DecodePayload ends after at most packet_size passes, with
\* kPayloadDecoded, kDecoderDelimiterFoundTooEarly or
\* kDecoderUnableToFindDelimiter; so for the 17-byte test packet.
C39_DecoderTerminates ==
    /\ DecodeRan =>
          /\ LastDecodePasses.passes <= codec.last.size
          /\ LastDecodePasses.status = codec.last.status
          /\ codec.last.status \in {kPayloadDecoded,
                                    kDecoderDelimiterFoundTooEarly,
                                    kDecoderUnableToFindDelimiter}
    /\ \A L \in 3..17 : \A d \in DelimiterBytes :
          LET t == DecodePasses([TestLongPacket EXCEPT ![0] = 0], 0,
                                TestLongPacket[0], L, d, 0)
          IN /\ t.passes <= L
             /\ t.status = DecodePayload(TestLongPacket, 18, L, d).status

\* a chain that comes to a distance byte 0 at the last index of the packet,
\* the delimiter not being 0: the loop passes over that index twice and
\* ends after packet_size passes
C39_ZeroDistanceAtEnd ==
    /\ DecodeRan
    /\ codec.delimiter # 0
    /\ codec.last.pre[codec.last.size - 1] = 0
    /\ LastDecodePasses.passes = codec.last.size
    /\ codec.last.status = kPayloadDecoded


\* the values of an enumeration
Values(enumeration) == {enumeration[k] : k \in DOMAIN enumeration}

\* the enumerators, in any of the three enumerations, that have the value
Enumerators(value) ==
    UNION {{<<"COBS", k>> : k \in {j \in DOMAIN kCOBSProcessorCodes :
                                      kCOBSProcessorCodes[j] = value}},
           {<<"CRC", k>> : k \in {j \in DOMAIN kCRCProcessorCodes :
                                     kCRCProcessorCodes[j] = value}},
           {<<"STP", k>> :
               k \in {j \in DOMAIN kSerializedTransferProtocolStatusCodes :
                        kSerializedTransferProtocolStatusCodes[j] = value}}}

\* C40: the status code spaces are pairwise disjoint: no numeric value is
\* shared between kCOBSProcessorCodes, kCRCProcessorCodes and
\* kSerializedTransferProtocolStatusCodes, so every value that
\* transfer_status holds after a public operation identifies exactly one
\* enumerator and one layer.
C40_StatusCodesDisjoint ==
    /\ Values(kCOBSProcessorCodes) \cap Values(kCRCProcessorCodes) = {}
    /\ Values(kCOBSProcessorCodes)
          \cap Values(kSerializedTransferProtocolStatusCodes) = {}
    /\ Values(kCRCProcessorCodes)
          \cap Values(kSerializedTransferProtocolStatusCodes) = {}
    /\ parse.pc = "idle" => Cardinality(Enumerators(transfer_status)) = 1
    /\ Cardinality(Enumerators(cobs_status)) = 1
    /\ Cardinality(Enumerators(crc_status)) = 1

\* a ReceiveData call has left a code of the COBS layer in transfer_status
C40_CodecCodeInTransferStatus ==
    /\ parse.pc = "idle"
    /\ last.op = "ReceiveData"
    /\ transfer_status \in Values(kCOBSProcessorCodes)
    /\ transfer_status = cobs_status
============================================================================
